---- MODULE Spec2Model ----
EXTENDS Integers, Sequences, FiniteSets, TLC

(***************************************************************************)
(* The kernel's two heap allocators (src/src/allocator/bump.rs and         *)
(* src/src/allocator/linked_list.rs) and the alignment utility they share  *)
(* (src/src/allocator.rs).  Addresses are usize values of AddrBits bits.   *)
(***************************************************************************)

\* ---------------------------------------------------------------- bounds
\* Width of usize in the model (the target has 64).
AddrBits == 8
\* Requested alignments are 2^0 .. 2^MaxAlignLog.
MaxAlignLog == 5
\* The caller keeps at most this many allocations outstanding.
MaxBumpLive == 2
MaxListLive == 3
\* Sizes of the heap windows handed to init.
HeapSmall == 64
HeapLarge == 96
\* The VGA text buffer, scaled down from 25 rows of 80 columns.
BUFFER_HEIGHT == 3
BUFFER_WIDTH == 2
\* Bytes written to the VGA writer in one run.
MaxWritten == 5
\* The calls of public functions of the writer other than write_string.
MaxCalls == 1
\* Keys that print are pressed while the screen has taken fewer bytes than
\* this.
MaxKeyBytes == 2
\* The size of a page, scaled down from 4 KiB.
PageSize == 16

\* ------------------------------------------------------- program constants
\* mem::size_of::<Node>(): a usize and an Option<*mut Node> (no niche).
NODE_SIZE == 24
\* mem::align_of::<Node>()
NODE_ALIGN == 8
\* ptr::null_mut()
NULL == 0

UsizeMax == 2^AddrBits - 1
IsizeMax == 2^(AddrBits - 1) - 1

Max(a, b) == IF a >= b THEN a ELSE b

\* core::alloc::Layout accepts (size, align) when align is a power of two and
\* size, rounded up to align, does not exceed isize::MAX.
LayoutOk(size, align) == size <= IsizeMax - (align - 1)

\* The requests the callers make.  Bump: byte, word and larger alignments,
\* sizes from nothing to more than the window.  Free list: word-aligned
\* requests from the node size to more than the window, small requests at the
\* larger alignments, a one-byte request and the largest size a Layout holds.
Aligns == {1} \cup {2^k : k \in 3..MaxAlignLog}
BumpSizes == {0, NODE_SIZE, HeapSmall, HeapLarge, IsizeMax}
BumpLayouts ==
    {l \in [size : BumpSizes, align : Aligns] : LayoutOk(l.size, l.align)}
ListLayouts ==
    {l \in    [size : {NODE_SIZE, NODE_SIZE + 16, NODE_SIZE + 32, HeapSmall,
                       HeapLarge, HeapLarge + NODE_ALIGN},
               align : {NODE_ALIGN}]
          \cup [size : {0, 1, NODE_SIZE}, align : Aligns \ {1, NODE_ALIGN}]
          \cup [size : {1, IsizeMax}, align : {1}] :
        LayoutOk(l.size, l.align)}

\* Where the kernel places the heap window: in the lower half of the address
\* space, as HEAP_START is.
LowBase == 2^(AddrBits - 3)
BumpWindows ==
    { [start |-> LowBase, size |-> HeapSmall],
      [start |-> LowBase + 4, size |-> HeapSmall] }
ListWindows ==
    { [start |-> LowBase, size |-> HeapSmall],
      [start |-> LowBase, size |-> HeapLarge],
      [start |-> LowBase + 4, size |-> HeapSmall],
      [start |-> LowBase, size |-> NODE_SIZE - NODE_ALIGN] }
\* A window that ends at the top of the address space.
HighWindows ==
    { [start |-> UsizeMax - (LowBase - 1), size |-> LowBase - 1] }
\* The requests made on it.
HighLayouts ==
    {l \in [size : {0, NODE_SIZE, IsizeMax}, align : {1, 2^MaxAlignLog}] :
        LayoutOk(l.size, l.align)}

VARIABLES
    which,            \* "bump" or "list": the allocator this process uses
    overflow_checks,  \* build profile: arithmetic overflow panics (TRUE) or wraps
    initialized,      \* init has been called
    window,           \* the (heap_start, heap_size) given to init
    heap_start,       \* BumpAllocInner.heap_start
    heap_end,         \* BumpAllocInner.heap_end
    next,             \* BumpAllocInner.next
    allocations,      \* BumpAllocInner.allocations
    list,             \* the chain head.next, node after node: [start, size]
    live,             \* the caller's outstanding allocations, oldest first
    last,             \* the last call and what it returned
    panicked,         \* the kernel has panicked
    mutex,            \* each spin::Mutex: who holds it, or "none"
    pc,               \* each caller's position in its alloc/dealloc/init call
    call,             \* each caller's call: operation, layout, pointer
    seen,             \* each caller's reads of the allocator's fields
    serial,           \* the allocator's fields had the calls run one by one
    irq,              \* the interrupt handler the CPU is running, if any
    vga,              \* VgaWriter: buffer.chars and column_position
    written,          \* the bytes given to the VGA writer so far
    boot,             \* the entry point: where it is, the pages it mapped
    cpu               \* the interrupt flag and the code the kernel runs

vars == <<which, overflow_checks, initialized, window, heap_start, heap_end,
          next, allocations, list, live, last, panicked,
          mutex, pc, call, seen, serial, irq, vga, written, boot, cpu>>

\* The screen, the entry point and the CPU.
sysVars == <<vga, written, boot, cpu>>

\* The state of the callers, the locks and the interrupt handlers.
concVars == <<mutex, pc, call, seen, serial, irq>>

\* The callers of the global allocator.
Callers == {"c1", "c2"}
\* The spin locks: the allocator's (inner), and the statics PICS, KEYBOARD,
\* VGA_WRITER and SERIAL1.
Mutexes == {"ALLOC", "PICS", "KEYBOARD", "VGA_WRITER", "SERIAL1"}

\* A caller that is not in a call, and a CPU that is in no handler.
NoRequest == [op |-> "none", size |-> 0, align |-> 0, ptr |-> NULL]
NoIrq == [handler |-> "none", key |-> <<>>, at |-> 0]
\* The fields of BumpAllocInner and the chain of LinkedListAllocInner.
Inner == [heap_start |-> heap_start, heap_end |-> heap_end, next |-> next,
          allocations |-> allocations, list |-> list]

bumpVars == <<heap_start, heap_end, next, allocations>>

NoCall == [op |-> "none", size |-> 0, align |-> 0, ptr |-> NULL,
           adj_size |-> 0, adj_align |-> 0]

RemoveAt(s, i) == SubSeq(s, 1, i - 1) \o SubSeq(s, i + 1, Len(s))

\* ------------------------------------------------------------ allocator.rs
\* The first operation of addr + align - 1, addr + align, does not fit in
\* usize.
align_up_overflows(addr, align) == addr + align > UsizeMax

\* Mutant: the address is returned as it is.
align_up_identity(addr, align) == addr

\* (addr + align - 1) & !(align - 1), in wrapping usize arithmetic.
align_up(addr, align) ==
    LET sum == (addr + align - 1) % (UsizeMax + 1)
    IN  sum - (sum % align)

\* ---------------------------------------------------------------- bump.rs
BumpAllocInner_new ==
    /\ heap_start = 0
    /\ heap_end = 0
    /\ next = 0
    /\ allocations = 0

\* Mutant: next is left at the start of the block handed out.
bump_alloc_no_commit(nx, he, n, size, align) ==
    LET alloc_start == align_up(nx, align)
    IN  IF alloc_start + size > he
        THEN [panic |-> FALSE, ptr |-> NULL, next |-> nx, allocations |-> n]
        ELSE [panic |-> FALSE, ptr |-> alloc_start, next |-> alloc_start,
              allocations |-> n + 1]

\* Mutant: the count of live allocations is not raised.
bump_alloc_no_count(nx, he, n, size, align) ==
    LET alloc_start == align_up(nx, align)
    IN  IF alloc_start + size > he
        THEN [panic |-> FALSE, ptr |-> NULL, next |-> nx, allocations |-> n]
        ELSE [panic |-> FALSE, ptr |-> alloc_start, next |-> alloc_start + size,
              allocations |-> n]

\* BumpAlloc::alloc on the state (nx, he, n). Result: the new next and
\* allocations, the returned pointer, and whether the call panicked.
bump_alloc(nx, he, n, size, align) ==
    IF overflow_checks /\ align_up_overflows(nx, align)
    THEN [panic |-> TRUE, ptr |-> NULL, next |-> nx, allocations |-> n]
    ELSE LET alloc_start == align_up(nx, align)
             alloc_end == alloc_start + size
         IN  IF alloc_end > UsizeMax
             THEN [panic |-> FALSE, ptr |-> NULL, next |-> nx, allocations |-> n]
             ELSE IF alloc_end > he
             THEN [panic |-> FALSE, ptr |-> NULL, next |-> nx, allocations |-> n]
             ELSE IF n = UsizeMax
             THEN IF overflow_checks
                  THEN [panic |-> TRUE, ptr |-> NULL, next |-> alloc_end,
                        allocations |-> n]
                  ELSE [panic |-> FALSE, ptr |-> alloc_start,
                        next |-> alloc_end, allocations |-> 0]
             ELSE [panic |-> FALSE, ptr |-> alloc_start, next |-> alloc_end,
                   allocations |-> n + 1]

\* Mutant: the count goes down but next is never reset.
bump_dealloc_no_reset(nx, hs, n) ==
    [panic |-> FALSE, next |-> nx, allocations |-> n - 1]

\* Mutant: every dealloc puts next back at the start of the heap.
bump_dealloc_always_reset(nx, hs, n) ==
    [panic |-> FALSE, next |-> hs, allocations |-> n - 1]

\* BumpAlloc::dealloc on the state (nx, hs, n).
bump_dealloc(nx, hs, n) ==
    IF n = 0
    THEN IF overflow_checks
         THEN [panic |-> TRUE, next |-> nx, allocations |-> n]
         ELSE [panic |-> FALSE, next |-> nx, allocations |-> UsizeMax]
    ELSE [panic |-> FALSE,
          next |-> IF n - 1 = 0 THEN hs ELSE nx,
          allocations |-> n - 1]

\* BumpAllocInner::init on the fields (he, nx): heap_start is written, then
\* heap_start + heap_size is computed in usize, then heap_end and next are
\* written.
bump_init(he, nx, start, size) ==
    IF overflow_checks /\ start + size > UsizeMax
    THEN [panic |-> TRUE, heap_start |-> start, heap_end |-> he, next |-> nx]
    ELSE [panic |-> FALSE, heap_start |-> start,
          heap_end |-> (start + size) % (UsizeMax + 1), next |-> start]

BumpInit(w) ==
    /\ which = "bump"
    /\ ~initialized
    /\ ~panicked
    /\ LET r == bump_init(heap_end, next, w.start, w.size)
       IN  /\ heap_start' = r.heap_start
           /\ heap_end' = r.heap_end
           /\ next' = r.next
           /\ panicked' = r.panic
    /\ initialized' = TRUE
    /\ window' = w
    /\ last' = [NoCall EXCEPT !.op = "init"]
    /\ UNCHANGED <<which, overflow_checks, allocations, list, live>>
    /\ UNCHANGED concVars
    /\ UNCHANGED sysVars

BumpAlloc(l) ==
    /\ which = "bump"
    /\ initialized
    /\ ~panicked
    /\ Len(live) < MaxBumpLive
    /\ allocations <= MaxBumpLive
    /\ LET r == bump_alloc(next, heap_end, allocations, l.size, l.align)
       IN  /\ next' = r.next
           /\ allocations' = r.allocations
           /\ panicked' = r.panic
           /\ last' = [NoCall EXCEPT !.op = "alloc",
                                     !.size = l.size, !.align = l.align,
                                     !.ptr = r.ptr]
           /\ live' = IF r.panic \/ r.ptr = NULL
                      THEN live
                      ELSE Append(live, [addr |-> r.ptr, size |-> l.size,
                                         align |-> l.align])
    /\ UNCHANGED <<which, overflow_checks, initialized, window, heap_start,
                   heap_end, list>>
    /\ UNCHANGED concVars
    /\ UNCHANGED sysVars

BumpDealloc(i) ==
    /\ which = "bump"
    /\ initialized
    /\ ~panicked
    /\ i \in 1..Len(live)
    /\ LET r == bump_dealloc(next, heap_start, allocations)
       IN  /\ next' = r.next
           /\ allocations' = r.allocations
           /\ panicked' = r.panic
           /\ last' = [NoCall EXCEPT !.op = "dealloc",
                                     !.size = live[i].size,
                                     !.align = live[i].align,
                                     !.ptr = live[i].addr]
    /\ live' = RemoveAt(live, i)
    /\ UNCHANGED <<which, overflow_checks, initialized, window, heap_start,
                   heap_end, list>>
    /\ UNCHANGED concVars
    /\ UNCHANGED sysVars

\* BumpAlloc::dealloc called once more for the block the previous dealloc
\* returned: the caller frees more times than it allocated.
BumpDeallocAgain ==
    /\ which = "bump"
    /\ initialized
    /\ ~panicked
    /\ last.op = "dealloc"
    /\ LET r == bump_dealloc(next, heap_start, allocations)
       IN  /\ next' = r.next
           /\ allocations' = r.allocations
           /\ panicked' = r.panic
           /\ last' = [last EXCEPT !.op = "dealloc_again"]
    /\ UNCHANGED <<which, overflow_checks, initialized, window, heap_start,
                   heap_end, list, live>>
    /\ UNCHANGED concVars
    /\ UNCHANGED sysVars

\* --------------------------------------------------------- linked_list.rs
\* LinkedListAllocInner::new: head = Node::new(0), an empty chain.
LinkedListAllocInner_new == list = <<>>

\* Node::start_addr and Node::end_addr; the sum of end_addr is a usize
\* addition, which may not fit.
start_addr(node) == node.start
end_addr_overflows(node) == start_addr(node) + node.size > UsizeMax
end_addr(node) == (start_addr(node) + node.size) % (UsizeMax + 1)

\* Mutant: the padded size is not raised to the size of a node.
size_align_no_min(l) ==
    LET align == Max(l.align, NODE_ALIGN)
    IN  IF ~LayoutOk(l.size, align)
        THEN [panic |-> TRUE, size |-> 0, align |-> 0]
        ELSE [panic |-> FALSE, size |-> align_up(l.size, align), align |-> align]

\* LinkedListAllocInner::size_align: Layout::align_to(align_of Node) fails
\* ("adjusting alignment failed") when the size no longer fits the new
\* alignment; pad_to_align rounds the size up; then the size is raised to
\* size_of Node.
size_align(l) ==
    LET align == Max(l.align, NODE_ALIGN)
    IN  IF ~LayoutOk(l.size, align)
        THEN [panic |-> TRUE, size |-> 0, align |-> 0]
        ELSE LET padded == align_up(l.size, align)
             IN  [panic |-> FALSE, size |-> Max(padded, NODE_SIZE),
                  align |-> align]

\* Mutant: the region is not checked to be large enough.
alloc_from_region_no_end_check(region, size, align) ==
    [res |-> "ok", alloc_start |-> align_up(start_addr(region), align)]

\* Mutant: a request that fills the region to its last byte is rejected.
alloc_from_region_no_exact_fit(region, size, align) ==
    LET alloc_start == align_up(start_addr(region), align)
        alloc_end == alloc_start + size
        excess_size == end_addr(region) - alloc_end
    IN  IF alloc_end >= end_addr(region)
        THEN [res |-> "err", alloc_start |-> 0]
        ELSE IF excess_size > 0 /\ excess_size < NODE_SIZE
        THEN [res |-> "err", alloc_start |-> 0]
        ELSE [res |-> "ok", alloc_start |-> alloc_start]

\* Mutant: a leftover of exactly the node size is rejected too.
alloc_from_region_strict(region, size, align) ==
    LET alloc_start == align_up(start_addr(region), align)
        alloc_end == alloc_start + size
        excess_size == end_addr(region) - alloc_end
    IN  IF alloc_end > end_addr(region)
        THEN [res |-> "err", alloc_start |-> 0]
        ELSE IF excess_size > 0 /\ excess_size <= NODE_SIZE
        THEN [res |-> "err", alloc_start |-> 0]
        ELSE [res |-> "ok", alloc_start |-> alloc_start]

\* Mutant: a leftover too small for a node is accepted.
alloc_from_region_any_excess(region, size, align) ==
    LET alloc_start == align_up(start_addr(region), align)
    IN  IF alloc_start + size > end_addr(region)
        THEN [res |-> "err", alloc_start |-> 0]
        ELSE [res |-> "ok", alloc_start |-> alloc_start]

\* LinkedListAllocInner::alloc_from_region
alloc_from_region(region, size, align) ==
    IF overflow_checks /\ align_up_overflows(start_addr(region), align)
    THEN [res |-> "panic", alloc_start |-> 0]
    ELSE LET alloc_start == align_up(start_addr(region), align)
             alloc_end == alloc_start + size
         IN  IF alloc_end > UsizeMax
             THEN [res |-> "err", alloc_start |-> 0]
             ELSE IF overflow_checks /\ end_addr_overflows(region)
             THEN [res |-> "panic", alloc_start |-> 0]
             ELSE IF alloc_end > end_addr(region)
             THEN [res |-> "err", alloc_start |-> 0]
             ELSE LET excess_size == end_addr(region) - alloc_end
                  IN  IF excess_size > 0 /\ excess_size < NODE_SIZE
                      THEN [res |-> "err", alloc_start |-> 0]
                      ELSE [res |-> "ok", alloc_start |-> alloc_start]

\* Mutant: the walk keeps the last node that fits instead of the first.
find_region_last_fit(l, i, size, align) ==
    LET fitting == {k \in i..Len(l) :
                       alloc_from_region(l[k], size, align).res = "ok"}
    IN  IF fitting = {}
        THEN [res |-> "none", idx |-> 0, alloc_start |-> 0]
        ELSE LET k == CHOOSE x \in fitting : \A y \in fitting : y <= x
             IN  [res |-> "some", idx |-> k,
                  alloc_start |-> alloc_from_region(l[k], size, align).alloc_start]

\* LinkedListAllocInner::find_region: the walk from the head, at node i of l.
RECURSIVE find_region(_, _, _, _)
find_region(l, i, size, align) ==
    IF i > Len(l)
    THEN [res |-> "none", idx |-> 0, alloc_start |-> 0]
    ELSE LET r == alloc_from_region(l[i], size, align)
         IN  IF r.res = "panic"
             THEN [res |-> "panic", idx |-> 0, alloc_start |-> 0]
             ELSE IF r.res = "ok"
             THEN [res |-> "some", idx |-> i, alloc_start |-> r.alloc_start]
             ELSE find_region(l, i + 1, size, align)

\* Mutant: the new node goes to the end of the chain.
add_free_region_at_tail(l, addr, size) ==
    IF align_up(addr, NODE_ALIGN) # addr \/ ~(size >= NODE_SIZE)
    THEN [panic |-> TRUE, list |-> l]
    ELSE [panic |-> FALSE, list |-> Append(l, [start |-> addr, size |-> size])]

\* Mutant: the size of the region is not asserted.
add_free_region_no_size_check(l, addr, size) ==
    IF align_up(addr, NODE_ALIGN) # addr
    THEN [panic |-> TRUE, list |-> l]
    ELSE [panic |-> FALSE, list |-> <<[start |-> addr, size |-> size]>> \o l]

\* Mutant: the alignment of the region is not asserted.
add_free_region_no_align_check(l, addr, size) ==
    IF ~(size >= NODE_SIZE)
    THEN [panic |-> TRUE, list |-> l]
    ELSE [panic |-> FALSE, list |-> <<[start |-> addr, size |-> size]>> \o l]

\* Mutant: a region that starts where a node ends is merged into that node.
add_free_region_coalescing(l, addr, size) ==
    IF \E k \in 1..Len(l) : l[k].start + l[k].size = addr
    THEN LET k == CHOOSE j \in 1..Len(l) : l[j].start + l[j].size = addr
         IN  [panic |-> FALSE, list |-> [l EXCEPT ![k].size = @ + size]]
    ELSE [panic |-> FALSE, list |-> <<[start |-> addr, size |-> size]>> \o l]

\* LinkedListAllocInner::add_free_region: the two assertions, then the new
\* node goes to the front of the chain.
add_free_region(l, addr, size) ==
    IF \/ overflow_checks /\ align_up_overflows(addr, NODE_ALIGN)
       \/ align_up(addr, NODE_ALIGN) # addr
       \/ ~(size >= NODE_SIZE)
    THEN [panic |-> TRUE, list |-> l]
    ELSE [panic |-> FALSE, list |-> <<[start |-> addr, size |-> size]>> \o l]

\* Mutant: the node found stays in the chain.
list_alloc_no_unlink(l, layout) ==
    LET sa == size_align(layout)
        found == find_region(l, 1, sa.size, sa.align)
        failed == [panic |-> FALSE, ptr |-> NULL, list |-> l,
                   adj_size |-> sa.size, adj_align |-> sa.align]
    IN  IF sa.panic \/ found.res = "panic" THEN [failed EXCEPT !.panic = TRUE]
        ELSE IF found.res = "none" THEN failed
        ELSE LET alloc_end == found.alloc_start + sa.size
                 excess_size == end_addr(l[found.idx]) - alloc_end
             IN  [failed EXCEPT
                    !.ptr = found.alloc_start,
                    !.list = IF excess_size > 0
                             THEN add_free_region(l, alloc_end, excess_size).list
                             ELSE l]

\* LinkedListAlloc::alloc on the chain l.
list_alloc(l, layout) ==
    LET sa == size_align(layout)
        failed == [panic |-> TRUE, ptr |-> NULL, list |-> l,
                   adj_size |-> sa.size, adj_align |-> sa.align]
    IN  IF sa.panic THEN failed
        ELSE LET found == find_region(l, 1, sa.size, sa.align)
             IN  IF found.res = "panic" THEN failed
                 ELSE IF found.res = "none"
                 THEN [failed EXCEPT !.panic = FALSE]
                 ELSE LET region == l[found.idx]
                          rest == RemoveAt(l, found.idx)
                          alloc_end == found.alloc_start + sa.size
                          excess_size == end_addr(region) - alloc_end
                          added == add_free_region(rest, alloc_end, excess_size)
                      IN  IF alloc_end > UsizeMax THEN failed
                          ELSE IF excess_size > 0
                          THEN IF added.panic
                               THEN [failed EXCEPT !.list = rest]
                               ELSE [failed EXCEPT !.panic = FALSE,
                                                   !.ptr = found.alloc_start,
                                                   !.list = added.list]
                          ELSE [failed EXCEPT !.panic = FALSE,
                                              !.ptr = found.alloc_start,
                                              !.list = rest]

\* Mutant: the freed node gets the size of the layout as the caller gave it.
list_dealloc_raw_size(l, ptr, layout) ==
    LET added == add_free_region_no_size_check(l, ptr, layout.size)
    IN  [panic |-> added.panic, list |-> added.list,
         adj_size |-> layout.size, adj_align |-> layout.align]

\* LinkedListAlloc::dealloc on the chain l.
list_dealloc(l, ptr, layout) ==
    LET sa == size_align(layout)
        added == add_free_region(l, ptr, sa.size)
    IN  IF sa.panic
        THEN [panic |-> TRUE, list |-> l, adj_size |-> 0, adj_align |-> 0]
        ELSE [panic |-> added.panic, list |-> added.list,
              adj_size |-> sa.size, adj_align |-> sa.align]

ListInit(w) ==
    /\ which = "list"
    /\ ~initialized
    /\ ~panicked
    /\ LET added == add_free_region(list, w.start, w.size)
       IN  /\ list' = added.list
           /\ panicked' = added.panic
           /\ last' = [NoCall EXCEPT !.op = "init"]
    /\ initialized' = TRUE
    /\ window' = w
    /\ UNCHANGED <<which, overflow_checks, bumpVars, live>>
    /\ UNCHANGED concVars
    /\ UNCHANGED sysVars

ListAlloc(l) ==
    /\ which = "list"
    /\ initialized
    /\ ~panicked
    /\ Len(live) < MaxListLive
    /\ LET r == list_alloc(list, l)
       IN  /\ list' = r.list
           /\ panicked' = r.panic
           /\ last' = [op |-> "alloc",
                       size |-> l.size, align |-> l.align, ptr |-> r.ptr,
                       adj_size |-> r.adj_size, adj_align |-> r.adj_align]
           /\ live' = IF r.panic \/ r.ptr = NULL
                      THEN live
                      ELSE Append(live, [addr |-> r.ptr, size |-> l.size,
                                         align |-> l.align])
    /\ UNCHANGED <<which, overflow_checks, initialized, window, bumpVars>>
    /\ UNCHANGED concVars
    /\ UNCHANGED sysVars

ListDealloc(i) ==
    /\ which = "list"
    /\ initialized
    /\ ~panicked
    /\ i \in 1..Len(live)
    /\ LET layout == [size |-> live[i].size, align |-> live[i].align]
           r == list_dealloc(list, live[i].addr, layout)
       IN  /\ list' = r.list
           /\ panicked' = r.panic
           /\ last' = [op |-> "dealloc",
                       size |-> layout.size, align |-> layout.align,
                       ptr |-> live[i].addr,
                       adj_size |-> r.adj_size, adj_align |-> r.adj_align]
    /\ live' = RemoveAt(live, i)
    /\ UNCHANGED <<which, overflow_checks, initialized, window, bumpVars>>
    /\ UNCHANGED concVars
    /\ UNCHANGED sysVars

\* ------------------------------------------------------------ vga_buffer.rs
\* Bytes are u8 values.  The bytes written: the first and the last printable
\* character (the space 0x20 and the tilde 0x7e), the newline, the backspace
\* (0x08) and the first byte after printable ASCII (0x7f); and what a cell
\* can hold.
Space == 32
Tilde == 126
Printable == {Space, Tilde}
NewLine == 10
Backspace == 8
Unprintable == 127
NullByte == 0
Replacement == 254
InputBytes == Printable \cup {NewLine, Backspace, Unprintable}
\* The arm 0x20..=0x7e of write_string.
PrintableAscii == 32..126

\* Color as u8, and ColorCode::new: (background << 4) | foreground.
Black == 0
Blue == 1
Yellow == 14
White == 15
ColorCode_new(foreground, background) == background * 16 + foreground
ColorCode_default == ColorCode_new(White, Black)

ScreenChar_blank ==
    [ascii_character |-> Space, color_code |-> ColorCode_default]
ScreenChar_null ==
    [ascii_character |-> NullByte, color_code |-> ColorCode_default]

Rows == 0..(BUFFER_HEIGHT - 1)
Cols == 0..(BUFFER_WIDTH - 1)

\* VgaWriter::clear: every row blank, with the null character in column 0.
clear ==
    [y \in Rows |-> [x \in Cols |->
        IF x = 0 THEN ScreenChar_null ELSE ScreenChar_blank]]

\* The writer VgaWriter::lock creates: column 0 of a cleared buffer, default
\* colours.
VgaWriter_new ==
    [buffer |-> clear, column_position |-> 0,
     color_code |-> ColorCode_default, panic |-> FALSE]

\* self.buffer.chars[row][col].write(c): an index outside the array panics.
chars_write(w, row, col, c) ==
    IF row \in Rows /\ col \in Cols
    THEN [w EXCEPT !.buffer[row][col] = c]
    ELSE [w EXCEPT !.panic = TRUE]

\* VgaWriter::set_char: a cell outside the buffer is left alone.
set_char(w, row, col, c) ==
    IF row \notin Rows \/ col \notin Cols
    THEN w
    ELSE [w EXCEPT !.buffer[row][col] = c]

\* VgaWriter::clear_char
clear_char(w, row, col) == set_char(w, row, col, ScreenChar_blank)

\* VgaWriter::clear_row: every cell of the row blank, then null in column 0.
clear_row(w, row) ==
    IF row \in Rows THEN [w EXCEPT !.buffer[row] = clear[row]] ELSE w

\* VgaWriter::copy_row: reading or writing a row outside the array panics.
copy_row(w, src, dest) ==
    IF src = dest
    THEN w
    ELSE IF src \notin Rows \/ dest \notin Rows
    THEN [w EXCEPT !.panic = TRUE]
    ELSE [w EXCEPT !.buffer[dest] = w.buffer[src]]

\* VgaWriter::set_colors
set_colors(w, foreground, background) ==
    [w EXCEPT !.color_code = ColorCode_new(foreground, background)]

\* y as isize - offset leaves isize at row y: the build with overflow checks
\* panics there, the build without wraps to a negative number.
scroll_overflows(y, offset) == y - offset > IsizeMax

\* Mutant: the rows are cleared and nothing is copied back.
scroll_clear_only(w, offset) ==
    [w EXCEPT !.buffer = clear,
              !.panic = w.panic \/ (overflow_checks /\ scroll_overflows(0, offset))]

\* VgaWriter::scroll: the buffer is cleared, then row y takes the old row
\* y - offset, or stays cleared when usize::try_from or get finds no such
\* row.  With overflow checks the loop panics at the first row whose
\* subtraction overflows and the rows from there on stay cleared.
scroll(w, offset) ==
    LET stops == {y \in Rows : overflow_checks /\ scroll_overflows(y, offset)}
        done(y) == \A z \in stops : y < z
    IN  [w EXCEPT
            !.buffer =
                [y \in Rows |-> [x \in Cols |->
                    IF done(y) /\ (y - offset) \in Rows
                    THEN w.buffer[y - offset][x]
                    ELSE clear[y][x]]],
            !.panic = w.panic \/ stops # {}]

\* VgaWriter::new_line
new_line(w) ==
    LET w1 == IF w.column_position < BUFFER_WIDTH
              THEN chars_write(w, BUFFER_HEIGHT - 1, w.column_position,
                               ScreenChar_null)
              ELSE w
    IN  [scroll(w1, -1) EXCEPT !.column_position = 0]

\* VgaWriter::backspace
backspace(w) ==
    IF w.column_position = 0
    THEN LET w1 == scroll(w, 1)
             nulls == {x \in Cols :
                         w1.buffer[BUFFER_HEIGHT - 1][x].ascii_character
                             = NullByte}
         IN  [w1 EXCEPT !.column_position =
                           IF nulls = {} THEN BUFFER_WIDTH
                           ELSE CHOOSE x \in nulls : \A z \in nulls : x <= z]
    ELSE [chars_write(w, BUFFER_HEIGHT - 1, w.column_position - 1,
                      ScreenChar_blank)
            EXCEPT !.column_position = w.column_position - 1]

\* Mutant: a full row is not wrapped before the next character is written.
write_byte_no_wrap(w, byte) ==
    IF byte = NewLine THEN new_line(w)
    ELSE IF byte = Backspace THEN backspace(w)
    ELSE [chars_write(w, BUFFER_HEIGHT - 1, w.column_position,
                      [ascii_character |-> byte, color_code |-> w.color_code])
            EXCEPT !.column_position = w.column_position + 1]

\* VgaWriter::write_byte
write_byte(w, byte) ==
    IF byte = NewLine THEN new_line(w)
    ELSE IF byte = Backspace THEN backspace(w)
    ELSE LET w1 == IF w.column_position >= BUFFER_WIDTH THEN new_line(w) ELSE w
         IN  [chars_write(w1, BUFFER_HEIGHT - 1, w1.column_position,
                          [ascii_character |-> byte,
                           color_code |-> w1.color_code])
                EXCEPT !.column_position = w1.column_position + 1]

\* VgaWriter::write_string, for one byte of the string.
write_string(w, byte) ==
    IF byte \in PrintableAscii \cup {NewLine, Backspace}
    THEN write_byte(w, byte)
    ELSE write_byte(w, Replacement)

\* write_fmt on the writer: write_str passes the text to write_string, which
\* takes it byte by byte.
RECURSIVE write_fmt(_, _)
write_fmt(w, text) ==
    IF text = <<>>
    THEN w
    ELSE write_fmt(write_string(w, Head(text)), Tail(text))

\* The writer as the variable holds it, and a call of a public function of
\* the writer other than write_string, as the history records it: a value
\* that is not a byte.
Writer ==
    [buffer |-> vga.buffer, column_position |-> vga.column_position,
     color_code |-> vga.color_code, panic |-> FALSE]
Call == 256
CallsMade == Cardinality({i \in DOMAIN written : written[i] = Call})

\* The function has run and left the writer w.
VgaApply(w, entry) ==
    /\ vga' = [buffer |-> w.buffer, column_position |-> w.column_position,
               color_code |-> w.color_code]
    /\ panicked' = w.panic
    /\ written' = Append(written, entry)
    /\ UNCHANGED <<which, overflow_checks, initialized, window, bumpVars, list,
                   live, last, boot, cpu>>
    /\ UNCHANGED concVars

\* One more byte of a string goes to the writer.
VgaWrite(byte) ==
    /\ ~panicked
    /\ Len(written) < MaxWritten
    /\ VgaApply(write_string(Writer, byte), byte)

\* The arguments the public functions are called with.
RawBytes == {Unprintable, NullByte}
ScrollOffsets == {-2, 2, -IsizeMax - 1}
CopyRowArgs == {<<BUFFER_HEIGHT - 1, 0>>, <<0, BUFFER_HEIGHT>>}
ClearRowArgs == {BUFFER_HEIGHT - 1}
ClearCharArgs == {<<BUFFER_HEIGHT - 1, 0>>, <<0, BUFFER_WIDTH>>}

\* write_byte called with a byte write_string would have replaced.
VgaWriteByte(byte) ==
    /\ ~panicked
    /\ Len(written) < MaxWritten
    /\ CallsMade < MaxCalls
    /\ VgaApply(write_byte(Writer, byte), Call)

VgaClear ==
    /\ ~panicked
    /\ Len(written) < MaxWritten
    /\ CallsMade < MaxCalls
    /\ VgaApply([Writer EXCEPT !.buffer = clear], Call)

VgaScroll(offset) ==
    /\ ~panicked
    /\ Len(written) < MaxWritten
    /\ CallsMade < MaxCalls
    /\ VgaApply(scroll(Writer, offset), Call)

VgaCopyRow(src, dest) ==
    /\ ~panicked
    /\ Len(written) < MaxWritten
    /\ CallsMade < MaxCalls
    /\ VgaApply(copy_row(Writer, src, dest), Call)

VgaClearRow(row) ==
    /\ ~panicked
    /\ Len(written) < MaxWritten
    /\ CallsMade < MaxCalls
    /\ VgaApply(clear_row(Writer, row), Call)

VgaClearChar(row, col) ==
    /\ ~panicked
    /\ Len(written) < MaxWritten
    /\ CallsMade < MaxCalls
    /\ VgaApply(clear_char(Writer, row, col), Call)

VgaSetColors(foreground, background) ==
    /\ ~panicked
    /\ Len(written) < MaxWritten
    /\ CallsMade < MaxCalls
    /\ VgaApply(set_colors(Writer, foreground, background), Call)

\* The entry point has not started, in an image built without cfg(test); the
\* CPU runs nothing in particular, with interrupts off as at power-on, and
\* the machine is on.
NoBoot == [path |-> "none", at |-> 0, page |-> 0, mapped |-> {},
           result |-> "none", requests |-> 0, cfg_test |-> FALSE]
NoTask == [task |-> "none", at |-> 0, interrupts |-> FALSE, saved |-> FALSE,
           off |-> FALSE]

\* The state at power-on, but for the interrupt flag and the build.
InitBase ==
    /\ which \in {"bump", "list"}
    /\ overflow_checks \in BOOLEAN
    /\ initialized = FALSE
    /\ window = [start |-> 0, size |-> 0]
    /\ BumpAllocInner_new
    /\ LinkedListAllocInner_new
    /\ live = <<>>
    /\ last = NoCall
    /\ panicked = FALSE
    /\ mutex = [m \in Mutexes |-> "none"]
    /\ pc = [c \in Callers |-> "idle"]
    /\ call = [c \in Callers |-> NoRequest]
    /\ seen = [c \in Callers |-> Inner]
    /\ serial = Inner
    /\ irq = NoIrq
    /\ vga = [buffer |-> VgaWriter_new.buffer,
              column_position |-> VgaWriter_new.column_position,
              color_code |-> VgaWriter_new.color_code]
    /\ written = <<>>

Init ==
    /\ InitBase
    /\ cpu = NoTask
    /\ boot = NoBoot

\* Power-on of either image: the kernel as it is run, or a test build.
InitBuild ==
    /\ InitBase
    /\ cpu = NoTask
    /\ boot \in {[NoBoot EXCEPT !.cfg_test = b] : b \in BOOLEAN}

Next ==
    \/ \E w \in BumpWindows : BumpInit(w)
    \/ \E l \in BumpLayouts : BumpAlloc(l)
    \/ \E i \in 1..MaxBumpLive : BumpDealloc(i)
    \/ \E w \in ListWindows : ListInit(w)
    \/ \E l \in ListLayouts : ListAlloc(l)
    \/ \E i \in 1..MaxListLive : ListDealloc(i)

Spec == Init /\ [][Next]_vars

\* The bump allocator over a window at the top of the address space, where
\* rounding an address up can leave the address space.
InitOverflow ==
    /\ Init
    /\ which = "bump"

NextOverflow ==
    \/ \E w \in HighWindows : BumpInit(w)
    \/ \E l \in HighLayouts : BumpAlloc(l)
    \/ \E i \in 1..MaxBumpLive : BumpDealloc(i)

SpecOverflow == InitOverflow /\ [][NextOverflow]_vars

\* The bump allocator with a caller that may free a block twice.
NextDoubleFree ==
    \/ \E w \in BumpWindows : BumpInit(w)
    \/ \E l \in BumpLayouts : BumpAlloc(l)
    \/ \E i \in 1..MaxBumpLive : BumpDealloc(i)
    \/ BumpDeallocAgain

SpecDoubleFree == InitOverflow /\ [][NextDoubleFree]_vars

\* ------------------------------------------ the locked facade, call by call
\* The heap window and the requests of the callers that run concurrently.
ConcWindow == [start |-> LowBase, size |-> HeapSmall]
ConcLayouts == {[size |-> NODE_SIZE, align |-> NODE_ALIGN],
                [size |-> NODE_SIZE + 16, align |-> NODE_ALIGN]}

\* The positions of a call at which the caller is inside the lock.
InCriticalSection == {"read", "write", "unlock"}

\* Mutant: the lock is handed out whoever holds it.
try_lock_unchecked(holder) == TRUE

\* spin::Mutex::lock spins until the compare-exchange finds the lock free.
try_lock(holder) == holder = "none"

\* The inner operation of a call k on the fields st: BumpAllocInner::init,
\* the bodies of BumpAlloc::alloc and dealloc, and the same for the free
\* list. Result: the new fields, the pointer returned, and a panic.
inner_call(st, k) ==
    IF which = "bump"
    THEN CASE k.op = "init" ->
                LET r == bump_init(st.heap_end, st.next, k.ptr, k.size)
                IN  [state |-> [st EXCEPT !.heap_start = r.heap_start,
                                          !.heap_end = r.heap_end,
                                          !.next = r.next],
                     ptr |-> k.ptr, panic |-> r.panic]
           [] k.op = "alloc" ->
                LET r == bump_alloc(st.next, st.heap_end, st.allocations,
                                    k.size, k.align)
                IN  [state |-> [st EXCEPT !.next = r.next,
                                          !.allocations = r.allocations],
                     ptr |-> r.ptr, panic |-> r.panic]
           [] OTHER ->
                LET r == bump_dealloc(st.next, st.heap_start, st.allocations)
                IN  [state |-> [st EXCEPT !.next = r.next,
                                          !.allocations = r.allocations],
                     ptr |-> k.ptr, panic |-> r.panic]
    ELSE CASE k.op = "init" ->
                LET r == add_free_region(st.list, k.ptr, k.size)
                IN  [state |-> [st EXCEPT !.list = r.list],
                     ptr |-> k.ptr, panic |-> r.panic]
           [] k.op = "alloc" ->
                LET r == list_alloc(st.list, [size |-> k.size, align |-> k.align])
                IN  [state |-> [st EXCEPT !.list = r.list],
                     ptr |-> r.ptr, panic |-> r.panic]
           [] OTHER ->
                LET r == list_dealloc(st.list, k.ptr,
                                      [size |-> k.size, align |-> k.align])
                IN  [state |-> [st EXCEPT !.list = r.list],
                     ptr |-> k.ptr, panic |-> r.panic]

\* The CPU runs the callers' code: it is in no interrupt handler and the
\* kernel has not panicked.
Running == irq.handler = "none" /\ ~panicked

\* init is called, once, before any other call.
CallInit(c) ==
    /\ Running
    /\ cpu.task = "none"
    /\ ~initialized
    /\ \A d \in Callers : pc[d] = "idle"
    /\ pc' = [pc EXCEPT ![c] = "lock"]
    /\ call' = [call EXCEPT ![c] = [op |-> "init", size |-> ConcWindow.size,
                                    align |-> 1, ptr |-> ConcWindow.start]]
    /\ UNCHANGED <<which, overflow_checks, initialized, window, bumpVars, list,
                   live, last, panicked, mutex, seen, serial, irq>>
    /\ UNCHANGED sysVars

\* A caller enters alloc with the layout l.
CallAlloc(c, l) ==
    /\ Running
    /\ cpu.task = "none"
    /\ initialized
    /\ pc[c] = "idle"
    /\ Len(live) + Cardinality({d \in Callers : call[d].op = "alloc"}) < MaxBumpLive
    /\ pc' = [pc EXCEPT ![c] = "lock"]
    /\ call' = [call EXCEPT ![c] = [op |-> "alloc", size |-> l.size,
                                    align |-> l.align, ptr |-> NULL]]
    /\ UNCHANGED <<which, overflow_checks, initialized, window, bumpVars, list,
                   live, last, panicked, mutex, seen, serial, irq>>
    /\ UNCHANGED sysVars

\* A caller enters dealloc with a block it owns and the block's layout.
CallDealloc(c, i) ==
    /\ Running
    /\ cpu.task = "none"
    /\ initialized
    /\ pc[c] = "idle"
    /\ i \in 1..Len(live)
    /\ pc' = [pc EXCEPT ![c] = "lock"]
    /\ call' = [call EXCEPT ![c] = [op |-> "dealloc", size |-> live[i].size,
                                    align |-> live[i].align,
                                    ptr |-> live[i].addr]]
    /\ live' = RemoveAt(live, i)
    /\ UNCHANGED <<which, overflow_checks, initialized, window, bumpVars, list,
                   last, panicked, mutex, seen, serial, irq>>
    /\ UNCHANGED sysVars

\* self.lock(): the caller spins until it has the allocator's lock.
Acquire(c) ==
    /\ Running
    /\ pc[c] = "lock"
    /\ try_lock(mutex["ALLOC"])
    /\ mutex' = [mutex EXCEPT !["ALLOC"] = c]
    /\ pc' = [pc EXCEPT ![c] = "read"]
    /\ UNCHANGED <<which, overflow_checks, initialized, window, bumpVars, list,
                   live, last, panicked, call, seen, serial, irq>>
    /\ UNCHANGED sysVars

\* The inner operation reads the allocator's fields.
Read(c) ==
    /\ Running
    /\ pc[c] = "read"
    /\ seen' = [seen EXCEPT ![c] = Inner]
    /\ pc' = [pc EXCEPT ![c] = "write"]
    /\ UNCHANGED <<which, overflow_checks, initialized, window, bumpVars, list,
                   live, last, panicked, mutex, call, serial, irq>>
    /\ UNCHANGED sysVars

\* The inner operation writes the fields it computed from what it read.
Write(c) ==
    /\ Running
    /\ pc[c] = "write"
    /\ LET r == inner_call(seen[c], call[c])
       IN  /\ heap_start' = r.state.heap_start
           /\ heap_end' = r.state.heap_end
           /\ next' = r.state.next
           /\ allocations' = r.state.allocations
           /\ list' = r.state.list
           /\ panicked' = r.panic
           /\ call' = [call EXCEPT ![c].ptr = r.ptr]
           /\ last' = [NoCall EXCEPT !.op = call[c].op, !.size = call[c].size,
                                     !.align = call[c].align, !.ptr = r.ptr]
    /\ serial' = inner_call(serial, call[c]).state
    /\ initialized' = (initialized \/ call[c].op = "init")
    /\ window' = IF call[c].op = "init" THEN ConcWindow ELSE window
    /\ pc' = [pc EXCEPT ![c] = "unlock"]
    /\ UNCHANGED <<which, overflow_checks, live, mutex, seen, irq>>
    /\ UNCHANGED sysVars

\* The guard is dropped at the end of the call and the call returns.
Release(c) ==
    /\ Running
    /\ pc[c] = "unlock"
    /\ mutex' = [mutex EXCEPT !["ALLOC"] = "none"]
    /\ pc' = [pc EXCEPT ![c] = "idle"]
    /\ live' = IF call[c].op = "alloc" /\ call[c].ptr # NULL
               THEN Append(live, [addr |-> call[c].ptr, size |-> call[c].size,
                                  align |-> call[c].align])
               ELSE live
    /\ call' = [call EXCEPT ![c] = NoRequest]
    /\ UNCHANGED <<which, overflow_checks, initialized, window, bumpVars, list,
                   last, panicked, seen, serial, irq>>
    /\ UNCHANGED sysVars

\* Callers that interleave at every step of their calls.
NextConc ==
    \/ \E c \in Callers : CallInit(c)
    \/ \E c \in Callers : \E l \in ConcLayouts : CallAlloc(c, l)
    \/ \E c \in Callers : \E i \in 1..MaxBumpLive : CallDealloc(c, i)
    \/ \E c \in Callers : Acquire(c)
    \/ \E c \in Callers : Read(c)
    \/ \E c \in Callers : Write(c)
    \/ \E c \in Callers : Release(c)

SpecConc == Init /\ [][NextConc]_vars

\* ------------------------------------------------------------ interrupts.rs
\* What a handler does, instruction by instruction: take a lock, drop a
\* lock, compute, or stop the CPU for good.
Lock(m) == [op |-> "lock", m |-> m, text |-> <<>>]
Unlock(m) == [op |-> "unlock", m |-> m, text |-> <<>>]
Work == [op |-> "work", m |-> "none", text |-> <<>>]
Halt == [op |-> "halt", m |-> "none", text |-> <<>>]
\* panic!: the kernel has panicked, and the panic handler of the image runs.
Panic == [op |-> "panic", m |-> "none", text |-> <<>>]
\* exit_qemu: the write to port 0xf4 switches the machine off.
ExitQemu == [op |-> "exit_qemu", m |-> "none", text |-> <<>>]
\* write_fmt of a text on the locked VGA writer.
WriteFmt(text) == [op |-> "write_fmt", m |-> "none", text |-> text]

\* vga_buffer::_print with interrupts off: lock the writer, write the text,
\* unlock.
vga_print(text) ==
    <<Lock("VGA_WRITER"), WriteFmt(text), Unlock("VGA_WRITER")>>

\* The text of a message printed with vga_println, cut down to one
\* character and the newline.
Message == <<97, NewLine>>

\* What a key prints: nothing (a key released, a shift key), its character,
\* or the name of a key that has none.
Keys == {<<>>, <<97>>, <<70, 49>>}

\* Instructions that change the interrupt flag: without_interrupts saves the
\* flag and clears it, and sets it again afterwards if it was set; enable
\* sets it.
SaveAndDisable == [op |-> "save_and_disable", m |-> "none", text |-> <<>>]
Restore == [op |-> "restore", m |-> "none", text |-> <<>>]
Enable == [op |-> "enable", m |-> "none", text |-> <<>>]

\* Mutant: the closure runs with the interrupt flag as it is.
without_interrupts_noop(body) == body

\* interrupts::without_interrupts(|| body)
without_interrupts(body) == <<SaveAndDisable>> \o body \o <<Restore>>

\* vga_buffer::_print and serial::_print
vga_buffer_print == without_interrupts(vga_print(Message))
serial_print ==
    without_interrupts(<<Lock("SERIAL1"), Work, Unlock("SERIAL1")>>)

\* lib.rs test_panic_handler: two serial_println!, each on its own inside
\* without_interrupts, then exit_qemu, then halt_loop.
test_panic_handler == serial_print \o serial_print \o <<ExitQemu, Halt>>

\* The #[panic_handler] of the image: the kernel prints the panic message
\* with vga_println! and goes to halt_loop; a test build runs
\* test_panic_handler.
panic_handler(cfg_test) ==
    IF cfg_test THEN test_panic_handler ELSE vga_buffer_print \o <<Halt>>

breakpoint_handler == vga_print(Message)
\* double_fault_handler is a panic!.
double_fault_handler(cfg_test) == <<Panic>> \o panic_handler(cfg_test)
page_fault_handler ==
    vga_print(Message) \o vga_print(Message) \o vga_print(Message)
        \o vga_print(Message) \o <<Halt>>
timer_interrupt_handler == <<Lock("PICS"), Work, Unlock("PICS")>>

\* Mutant: the handler builds the text of the key on the heap.
keyboard_interrupt_handler_allocating(key) ==
    <<Lock("KEYBOARD"), Work>>
        \o (IF key # <<>>
            THEN <<Lock("ALLOC"), Work, Unlock("ALLOC")>> \o vga_print(key)
            ELSE <<>>)
        \o <<Lock("PICS"), Work, Unlock("KEYBOARD"), Unlock("PICS")>>

\* keyboard_interrupt_handler: the scancode is read under the KEYBOARD lock;
\* when it completes a key the key is printed; then the interrupt is
\* acknowledged under the PICS lock. The PICS guard is a temporary of the
\* tail expression of the body, dropped after the local KEYBOARD guard.
keyboard_interrupt_handler(key) ==
    <<Lock("KEYBOARD"), Work>>
        \o (IF key # <<>> THEN vga_print(key) ELSE <<>>)
        \o <<Lock("PICS"), Work, Unlock("KEYBOARD"), Unlock("PICS")>>

\* The handlers the IDT holds, and those of the two external interrupts.
InstalledHandlers == {"breakpoint", "double_fault", "page_fault", "timer",
                      "keyboard"}
ExternalInterrupts == {"timer", "keyboard"}
Exceptions == InstalledHandlers \ ExternalInterrupts

\* The instructions of handler h.
Program(h, key) ==
    CASE h = "breakpoint" -> breakpoint_handler
      [] h = "double_fault" -> double_fault_handler(boot.cfg_test)
      [] h = "page_fault" -> page_fault_handler
      [] h = "timer" -> timer_interrupt_handler
      [] OTHER -> keyboard_interrupt_handler(key)

\* The instruction the running handler is at.
Current == Program(irq.handler, irq.key)[irq.at]

\* An external interrupt arrives while no handler runs and the interrupt
\* flag is set; the CPU enters the handler with interrupts off. Only the
\* keyboard brings a key.
Interrupt(h, key) ==
    /\ irq.handler = "none"
    /\ ~cpu.off
    /\ cpu.interrupts
    /\ h = "timer" => key = <<>>
    /\ key # <<>> => Len(written) + Len(key) <= MaxKeyBytes
    /\ irq' = [handler |-> h, key |-> key, at |-> 1]
    /\ UNCHANGED <<which, overflow_checks, initialized, window, bumpVars, list,
                   live, last, panicked, mutex, pc, call, seen, serial>>
    /\ UNCHANGED sysVars

\* The code outside the handlers and outside the calls of the allocator and
\* of the prints executes an instruction that raises an exception: an int3,
\* an access to a page that is not mapped, a fault that cannot be delivered.
\* The interrupt flag does not mask it; the CPU enters the handler with
\* interrupts off.  A breakpoint returns, so the screen bounds how many are
\* raised.
Exception(h) ==
    /\ irq.handler = "none"
    /\ ~cpu.off
    /\ ~panicked
    /\ cpu.task = "none"
    /\ \A c \in Callers : pc[c] = "idle"
    /\ h = "breakpoint" => Len(written) + Len(Message) <= MaxKeyBytes
    /\ irq' = [handler |-> h, key |-> <<>>, at |-> 1]
    /\ UNCHANGED <<which, overflow_checks, initialized, window, bumpVars, list,
                   live, last, panicked, mutex, pc, call, seen, serial>>
    /\ UNCHANGED sysVars

\* The handler executes its next instruction; on a lock it spins until the
\* lock is free, a panic! marks the kernel panicked, exit_qemu switches the
\* machine off, and halt_loop inside a handler never ends.  Inside a handler
\* the interrupt flag is clear, so without_interrupts saves and restores a
\* clear flag; the flag of the interrupted code comes back with the iret.
HandlerStep ==
    /\ irq.handler # "none"
    /\ ~cpu.off
    /\ irq.at <= Len(Program(irq.handler, irq.key))
    /\ Current.op # "halt"
    /\ Current.op = "lock" => try_lock(mutex[Current.m])
    /\ mutex' = CASE Current.op = "lock" ->
                       [mutex EXCEPT ![Current.m] = irq.handler]
                  [] Current.op = "unlock" ->
                       [mutex EXCEPT ![Current.m] = "none"]
                  [] OTHER -> mutex
    /\ irq' = [irq EXCEPT !.at = @ + 1]
    /\ LET w == IF Current.op = "write_fmt"
                THEN write_fmt(Writer, Current.text)
                ELSE Writer
       IN  /\ vga' = [buffer |-> w.buffer,
                      column_position |-> w.column_position,
                      color_code |-> w.color_code]
           /\ panicked' = (panicked \/ w.panic \/ Current.op = "panic")
    /\ written' = IF Current.op = "write_fmt"
                  THEN written \o Current.text
                  ELSE written
    /\ cpu' = IF Current.op = "exit_qemu" THEN [cpu EXCEPT !.off = TRUE] ELSE cpu
    /\ UNCHANGED <<which, overflow_checks, initialized, window, bumpVars, list,
                   live, last, pc, call, seen, serial, boot>>

\* The handler returns to the interrupted code.
Iret ==
    /\ irq.handler # "none"
    /\ irq.at > Len(Program(irq.handler, irq.key))
    /\ irq' = NoIrq
    /\ UNCHANGED <<which, overflow_checks, initialized, window, bumpVars, list,
                   live, last, panicked, mutex, pc, call, seen, serial>>
    /\ UNCHANGED sysVars

\* Strings written byte by byte to the VGA writer, and calls of its other
\* public functions.
NextVga ==
    \/ \E byte \in InputBytes : VgaWrite(byte)
    \/ \E byte \in RawBytes : VgaWriteByte(byte)
    \/ VgaClear
    \/ \E offset \in ScrollOffsets : VgaScroll(offset)
    \/ \E a \in CopyRowArgs : VgaCopyRow(a[1], a[2])
    \/ \E row \in ClearRowArgs : VgaClearRow(row)
    \/ \E a \in ClearCharArgs : VgaClearChar(a[1], a[2])
    \/ VgaSetColors(Yellow, Blue)

SpecVga == Init /\ [][NextVga]_vars

\* ------------------------------------- printing and locking outside handlers
\* The string of test_vga_println_output, cut down to fit on a line.
TestString == <<83, Space>>
\* The loop of assert_eq! over the row above the last: a cell that does not
\* hold its character of s fails the assertion.
ReadBack(s) == [op |-> "read_back", m |-> "none", text |-> s]
read_back_fails(buf, s) ==
    \E i \in 1..Len(s) :
        \/ (i - 1) \notin Cols
        \/ buf[BUFFER_HEIGHT - 2][i - 1].ascii_character # s[i]

\* test_vga_println_output: writes a newline, s and a newline, then reads s
\* back from the buffer, under one lock of the writer.
test_vga_println_output ==
    without_interrupts(<<Lock("VGA_WRITER"),
                         WriteFmt(<<NewLine>> \o TestString \o <<NewLine>>),
                         ReadBack(TestString),
                         Unlock("VGA_WRITER")>>)

\* gdt::init loads the descriptor tables: table setup that asks for no
\* memory.
gdt_init == <<Work>>

\* lib.rs init: gdt::init, init_idt, init_pics (under the PICS lock), then
\* interrupts::enable.
lib_init == gdt_init \o <<Work, Lock("PICS"), Work, Unlock("PICS"), Enable>>

Tasks == {"lib_init", "vga_buffer_print", "serial_print",
          "test_vga_println_output"}
TaskProgram(t) ==
    CASE t = "lib_init" -> lib_init
      [] t = "vga_buffer_print" -> vga_buffer_print
      [] t = "serial_print" -> serial_print
      [] OTHER -> test_vga_println_output

\* The instruction the code outside the handlers is at.
TaskCurrent == TaskProgram(cpu.task)[cpu.at]

\* The text a run of instructions writes to the screen, whether it holds
\* the instruction op, and the requests to the allocator it makes.
RECURSIVE Printed(_)
Printed(prog) ==
    IF prog = <<>>
    THEN <<>>
    ELSE (IF Head(prog).op = "write_fmt" THEN Head(prog).text ELSE <<>>)
             \o Printed(Tail(prog))
Has(prog, op) == \E i \in DOMAIN prog : prog[i] = op
Requests(prog) == Cardinality({i \in DOMAIN prog : prog[i] = Lock("ALLOC")})

\* The kernel calls init (once, interrupts still off) or prints; the test
\* is part of a test build only.
TaskStart(t) ==
    /\ Running
    /\ cpu.task = "none"
    /\ \A c \in Callers : pc[c] = "idle"
    /\ t = "lib_init" => ~cpu.interrupts
    /\ t = "test_vga_println_output" => boot.cfg_test
    /\ Len(written) + Len(Printed(TaskProgram(t))) <= MaxWritten
    /\ cpu' = [cpu EXCEPT !.task = t, !.at = 1]
    /\ UNCHANGED <<which, overflow_checks, initialized, window, bumpVars, list,
                   live, last, panicked, vga, written, boot>>
    /\ UNCHANGED concVars

\* The code outside the handlers executes its next instruction; on a lock it
\* spins until the lock is free.
TaskStep ==
    /\ Running
    /\ cpu.task # "none"
    /\ cpu.at <= Len(TaskProgram(cpu.task))
    /\ TaskCurrent.op = "lock" => try_lock(mutex[TaskCurrent.m])
    /\ mutex' = CASE TaskCurrent.op = "lock" ->
                       [mutex EXCEPT ![TaskCurrent.m] = cpu.task]
                  [] TaskCurrent.op = "unlock" ->
                       [mutex EXCEPT ![TaskCurrent.m] = "none"]
                  [] OTHER -> mutex
    /\ cpu' = CASE TaskCurrent.op = "save_and_disable" ->
                     [cpu EXCEPT !.saved = cpu.interrupts,
                                 !.interrupts = FALSE, !.at = @ + 1]
                [] TaskCurrent.op = "restore" ->
                     [cpu EXCEPT !.interrupts = IF cpu.saved THEN TRUE ELSE @,
                                 !.at = @ + 1]
                [] TaskCurrent.op = "enable" ->
                     [cpu EXCEPT !.interrupts = TRUE, !.at = @ + 1]
                [] OTHER -> [cpu EXCEPT !.at = @ + 1]
    /\ LET w == IF TaskCurrent.op = "write_fmt"
                THEN write_fmt(Writer, TaskCurrent.text)
                ELSE Writer
       IN  /\ vga' = [buffer |-> w.buffer,
                      column_position |-> w.column_position,
                      color_code |-> w.color_code]
           /\ panicked' = \/ w.panic
                          \/ /\ TaskCurrent.op = "read_back"
                             /\ read_back_fails(vga.buffer, TaskCurrent.text)
    /\ written' = IF TaskCurrent.op = "write_fmt"
                  THEN written \o TaskCurrent.text
                  ELSE written
    /\ UNCHANGED <<which, overflow_checks, initialized, window, bumpVars, list,
                   live, last, pc, call, seen, serial, irq, boot>>

\* The call returns.
TaskReturn ==
    /\ Running
    /\ cpu.task # "none"
    /\ cpu.at > Len(TaskProgram(cpu.task))
    /\ cpu' = [cpu EXCEPT !.task = "none", !.at = 0]
    /\ UNCHANGED <<which, overflow_checks, initialized, window, bumpVars, list,
                   live, last, panicked, vga, written, boot>>
    /\ UNCHANGED concVars

\* ------------------------------------------- init_heap and the entry points
\* The heap window init_heap maps: HEAP_START and HEAP_SIZE.
HEAP_START == ConcWindow.start
HEAP_SIZE == ConcWindow.size
\* The flags each heap page is mapped with.
HeapPageFlags == {"PRESENT", "WRITABLE"}

\* Page::containing_address
containing_address(addr) == addr \div PageSize

\* Mutant: the page that holds the last byte of the heap is left out.
page_range_exclusive(start, size) ==
    containing_address(start)..(containing_address(start + size - 1) - 1)

\* The pages init_heap walks: from the page of heap_start to the page of
\* heap_start + HEAP_SIZE - 1, both included.
page_range(start, size) ==
    containing_address(start)..containing_address(start + size - 1)

\* memory::init builds the page-table mapper and
\* BootInfoFrameAllocator::init the frame allocator from the memory map of
\* the bootloader: table setup that asks for no memory.
memory_init == <<Work>>
BootInfoFrameAllocator_init == <<Work>>

\* What the two entry points do, call by call; test_main is there in a test
\* build only.
kernel_main(cfg_test) ==
    <<"vga_println", "serial_println", "memory_init", "frame_allocator_init",
      "ros_init", "init_heap", "expect">>
        \o (IF cfg_test THEN <<"test_main">> ELSE <<>>)
        \o <<"halt_loop">>
heap_allocation_main ==
    <<"ros_init", "memory_init", "frame_allocator_init", "init_heap", "expect",
      "test_main", "loop">>
BootProgram(path) ==
    IF path = "kernel_main"
    THEN kernel_main(boot.cfg_test)
    ELSE heap_allocation_main
BootPaths == {"kernel_main", "heap_allocation_main"}

\* The call the entry point is at, and the page the loop of init_heap is at.
BootCurrent ==
    IF boot.path = "none" THEN "none" ELSE BootProgram(boot.path)[boot.at]
HeapPage == containing_address(HEAP_START) + boot.page

\* The instructions of a call the entry point makes before init_heap.
BootCall(step) ==
    CASE step = "vga_println" -> vga_buffer_print
      [] step = "serial_println" -> serial_print
      [] step = "memory_init" -> memory_init
      [] step = "frame_allocator_init" -> BootInfoFrameAllocator_init
      [] OTHER -> lib_init

\* The entry point executes its own code: no handler runs, the kernel has
\* not panicked and the machine is on.
BootRunning == Running /\ ~cpu.off

\* The entry point is the code of an image: the test of the heap is a test
\* build.
BootEnter(path) ==
    /\ boot.path = "none"
    /\ BootRunning
    /\ path = "heap_allocation_main" => boot.cfg_test
    /\ boot' = [boot EXCEPT !.path = path, !.at = 1]
    /\ UNCHANGED <<which, overflow_checks, initialized, window, bumpVars, list,
                   live, last, panicked, vga, written, cpu>>
    /\ UNCHANGED concVars

\* One of the calls before init_heap, run to its end: vga_println writes the
\* screen, ros::init ends by enabling interrupts.  No interrupt is taken
\* inside the call: a print runs with interrupts off, as does everything
\* before the last instruction of ros::init.
BootStep ==
    /\ BootRunning
    /\ BootCurrent \in {"vga_println", "serial_println", "memory_init",
                         "frame_allocator_init", "ros_init"}
    /\ LET prog == BootCall(BootCurrent)
           w == write_fmt(Writer, Printed(prog))
       IN  /\ boot' = [boot EXCEPT !.at = @ + 1,
                                   !.requests = @ + Requests(prog)]
           /\ cpu' = [cpu EXCEPT !.interrupts = @ \/ Has(prog, Enable)]
           /\ vga' = [buffer |-> w.buffer,
                      column_position |-> w.column_position,
                      color_code |-> w.color_code]
           /\ written' = written \o Printed(prog)
           /\ panicked' = w.panic
    /\ UNCHANGED <<which, overflow_checks, initialized, window, bumpVars, list,
                   live, last>>
    /\ UNCHANGED concVars

\* One turn of the loop of init_heap: a frame is asked for and the page is
\* mapped to it; without a frame, or when map_to fails, init_heap returns
\* the error at once.
MapPage(outcome) ==
    /\ BootRunning
    /\ BootCurrent = "init_heap"
    /\ HeapPage \in page_range(HEAP_START, HEAP_SIZE)
    /\ boot' = CASE outcome = "mapped" ->
                     [boot EXCEPT !.mapped = @ \cup {[page |-> HeapPage,
                                                      flags |-> HeapPageFlags]},
                                  !.page = @ + 1]
                [] outcome = "no_frame" ->
                     [boot EXCEPT !.result = "FrameAllocationFailed",
                                  !.at = @ + 1]
                [] OTHER ->
                     [boot EXCEPT !.result = "MapToError", !.at = @ + 1]
    /\ UNCHANGED <<which, overflow_checks, initialized, window, bumpVars, list,
                   live, last, panicked, vga, written, cpu>>
    /\ UNCHANGED concVars

\* The loop is over: init_heap returns Ok(()).
InitHeapOk ==
    /\ BootRunning
    /\ BootCurrent = "init_heap"
    /\ HeapPage \notin page_range(HEAP_START, HEAP_SIZE)
    /\ boot' = [boot EXCEPT !.result = "Ok", !.at = @ + 1]
    /\ UNCHANGED <<which, overflow_checks, initialized, window, bumpVars, list,
                   live, last, panicked, vga, written, cpu>>
    /\ UNCHANGED concVars

\* .expect(..) on the result of init_heap: an Err panics, which enters the
\* panic handler of the image with the interrupt flag as it is.
Expect ==
    /\ BootRunning
    /\ BootCurrent = "expect"
    /\ boot' = IF boot.result = "Ok" THEN [boot EXCEPT !.at = @ + 1] ELSE boot
    /\ panicked' = (boot.result # "Ok")
    /\ cpu' = IF boot.result = "Ok"
              THEN cpu
              ELSE [cpu EXCEPT !.task = "panic_handler", !.at = 1]
    /\ UNCHANGED <<which, overflow_checks, initialized, window, bumpVars, list,
                   live, last, vga, written>>
    /\ UNCHANGED concVars

\* The instruction the panic handler is at.
PanicCurrent == panic_handler(boot.cfg_test)[cpu.at]

\* The panic handler executes its next instruction, between the interrupts
\* it takes while the flag is set: on a lock it spins until the lock is
\* free, vga_println! writes the screen, exit_qemu switches the machine off,
\* and in halt_loop only handlers run.
PanicStep ==
    /\ irq.handler = "none"
    /\ ~cpu.off
    /\ cpu.task = "panic_handler"
    /\ PanicCurrent.op # "halt"
    /\ PanicCurrent.op = "lock" => try_lock(mutex[PanicCurrent.m])
    /\ mutex' = CASE PanicCurrent.op = "lock" ->
                       [mutex EXCEPT ![PanicCurrent.m] = cpu.task]
                  [] PanicCurrent.op = "unlock" ->
                       [mutex EXCEPT ![PanicCurrent.m] = "none"]
                  [] OTHER -> mutex
    /\ cpu' = CASE PanicCurrent.op = "save_and_disable" ->
                     [cpu EXCEPT !.saved = cpu.interrupts,
                                 !.interrupts = FALSE, !.at = @ + 1]
                [] PanicCurrent.op = "restore" ->
                     [cpu EXCEPT !.interrupts = IF cpu.saved THEN TRUE ELSE @,
                                 !.at = @ + 1]
                [] PanicCurrent.op = "exit_qemu" ->
                     [cpu EXCEPT !.off = TRUE, !.at = @ + 1]
                [] OTHER -> [cpu EXCEPT !.at = @ + 1]
    /\ LET w == IF PanicCurrent.op = "write_fmt"
                THEN write_fmt(Writer, PanicCurrent.text)
                ELSE Writer
       IN  /\ vga' = [buffer |-> w.buffer,
                      column_position |-> w.column_position,
                      color_code |-> w.color_code]
           /\ panicked' = (panicked \/ w.panic)
    /\ written' = IF PanicCurrent.op = "write_fmt"
                  THEN written \o PanicCurrent.text
                  ELSE written
    /\ boot' = IF PanicCurrent = Lock("ALLOC")
               THEN [boot EXCEPT !.requests = @ + 1]
               ELSE boot
    /\ UNCHANGED <<which, overflow_checks, initialized, window, bumpVars, list,
                   live, last, pc, call, seen, serial, irq>>

\* A test of tests/heap_allocation.rs asks the global allocator for memory,
\* which reads and writes the heap window: an access to a page that is not
\* mapped present and writable raises a page fault.
TestAlloc(page) ==
    /\ BootRunning
    /\ BootCurrent = "test_main"
    /\ boot.path = "heap_allocation_main"
    /\ boot.requests < MaxListLive
    /\ boot' = [boot EXCEPT !.requests = @ + 1]
    /\ irq' = IF [page |-> page, flags |-> HeapPageFlags] \in boot.mapped
              THEN irq
              ELSE [handler |-> "page_fault", key |-> <<>>, at |-> 1]
    /\ UNCHANGED <<which, overflow_checks, initialized, window, bumpVars, list,
                   live, last, panicked, vga, written, cpu, mutex, pc, call,
                   seen, serial>>

\* The tests are over: test_runner ends with exit_qemu, which switches the
\* machine off.
TestMainExit ==
    /\ BootRunning
    /\ BootCurrent = "test_main"
    /\ cpu' = [cpu EXCEPT !.off = TRUE]
    /\ UNCHANGED <<which, overflow_checks, initialized, window, bumpVars, list,
                   live, last, panicked, vga, written, boot>>
    /\ UNCHANGED concVars

\* An entry point from power-on, with the timer and the keyboard
\* interrupting it, and the panic handler after it, once ros::init has set
\* the interrupt flag.
NextBoot ==
    \/ \E path \in BootPaths : BootEnter(path)
    \/ BootStep
    \/ \E outcome \in {"mapped", "no_frame", "map_error"} : MapPage(outcome)
    \/ InitHeapOk
    \/ Expect
    \/ PanicStep
    \/ \E page \in page_range(HEAP_START, HEAP_SIZE) : TestAlloc(page)
    \/ TestMainExit
    \/ \E h \in ExternalInterrupts : \E key \in Keys : Interrupt(h, key)
    \/ HandlerStep
    \/ Iret

SpecBoot == InitBuild /\ [][NextBoot]_vars

\* The one execution context of the kernel, in a call of the allocator.
Main == "c1"
MainStep == Acquire(Main) \/ Read(Main) \/ Write(Main) \/ Release(Main)

NextIrq ==
    \/ CallInit(Main)
    \/ \E l \in ConcLayouts : CallAlloc(Main, l)
    \/ \E i \in 1..MaxBumpLive : CallDealloc(Main, i)
    \/ Acquire(Main)
    \/ Read(Main)
    \/ Write(Main)
    \/ Release(Main)
    \/ TaskStart("lib_init")
    \/ TaskStep
    \/ TaskReturn
    \/ \E h \in ExternalInterrupts : \E key \in Keys : Interrupt(h, key)
    \/ \E h \in Exceptions : Exception(h)
    \/ HandlerStep
    \/ Iret

\* The kernel as it is run.  A handler that is running executes its next
\* instruction, and the interrupted code executes its own for as long as no
\* interrupt preempts it; nothing keeps interrupts from arriving one after
\* the other.
SpecIrq ==
    /\ Init
    /\ [][NextIrq]_vars
    /\ WF_vars(HandlerStep \/ Iret)
    /\ WF_vars(MainStep)

NextPrint ==
    \/ \E t \in Tasks : TaskStart(t)
    \/ TaskStep
    \/ TaskReturn
    \/ \E h \in ExternalInterrupts : \E key \in Keys : Interrupt(h, key)
    \/ \E h \in Exceptions : Exception(h)
    \/ HandlerStep
    \/ Iret

\* A handler that is running executes its next instruction.
SpecPrint ==
    /\ InitBuild
    /\ [][NextPrint]_vars
    /\ WF_vars(HandlerStep \/ Iret)

\* ----------------------------------------------------------------- claims
\* x rounded up to a multiple of a, in unbounded arithmetic.
RoundUp(x, a) == ((x + a - 1) \div a) * a

\* [a1, e1) and [a2, e2) share no byte.
Disjoint(a1, e1, a2, e2) == e1 <= a2 \/ e2 <= a1

\* The size of the block the free list hands out for live allocation a: the
\* size of its layout after the layout adjustment.
BlockSize(a) == size_align([size |-> a.size, align |-> a.align]).size

\* C1: on the free-list allocator the blocks of the live allocations lie in
\* the heap window, are pairwise disjoint, and are disjoint from every node
\* of the free list.
C1_FreeListNoOverlap ==
    which = "list" =>
        /\ \A i \in 1..Len(live) :
              /\ window.start <= live[i].addr
              /\ live[i].addr + BlockSize(live[i]) <= window.start + window.size
        /\ \A i, j \in 1..Len(live) :
              i < j => Disjoint(live[i].addr, live[i].addr + BlockSize(live[i]),
                                live[j].addr, live[j].addr + BlockSize(live[j]))
        /\ \A i \in 1..Len(live) : \A k \in 1..Len(list) :
              Disjoint(live[i].addr, live[i].addr + BlockSize(live[i]),
                       list[k].start, list[k].start + list[k].size)

\* Two blocks are live and two nodes are free, after a block was freed.
C1_Witness ==
    /\ which = "list"
    /\ last.op = "dealloc"
    /\ Len(live) >= 2
    /\ Len(list) >= 2

\* C2: on the bump allocator the ranges of the live allocations lie in
\* [heap_start, heap_end) and do not overlap, each one starting at or after
\* the end of the ones allocated before it; a successful alloc returns an
\* address at or after next, the end of everything allocated since the last
\* reclaim.
C2_BumpNoOverlap ==
    /\ [](which = "bump" =>
            /\ \A i \in 1..Len(live) :
                  /\ heap_start <= live[i].addr
                  /\ live[i].addr + live[i].size <= heap_end
                  /\ live[i].addr + live[i].size <= next
            /\ \A i, j \in 1..Len(live) :
                  i < j => live[i].addr + live[i].size <= live[j].addr)
    /\ [][(which = "bump" /\ last'.op = "alloc" /\ last'.ptr # NULL)
            => (last'.ptr >= next /\ next' >= next)]_vars

\* Two allocations of non-zero size are live.
C2_Witness ==
    /\ which = "bump"
    /\ last.op = "alloc"
    /\ Len(live) = 2
    /\ live[1].size > 0
    /\ live[2].size > 0

\* C3: every address a successful alloc returns, on either allocator, is a
\* multiple of the requested alignment.
C3_Alignment ==
    /\ (last.op = "alloc" /\ ~panicked /\ last.ptr # NULL)
          => last.ptr % last.align = 0
    /\ \A i \in 1..Len(live) : live[i].addr % live[i].align = 0

\* The free list served a request aligned above the word size from a node
\* left by an earlier split.
C3_Witness ==
    /\ which = "list"
    /\ last.op = "alloc"
    /\ last.ptr # NULL
    /\ last.align > NODE_ALIGN
    /\ last.ptr > window.start
    /\ Len(live) >= 2

\* C4: when the last outstanding bump allocation is freed, allocations is 0
\* and next is back at heap_start, whatever the order of the frees; the next
\* successful alloc returns heap_start rounded up to its alignment.
C4_BumpReclaim ==
    (which = "bump" /\ initialized /\ ~panicked) =>
        /\ live = <<>> => (allocations = 0 /\ next = heap_start)
        /\ (last.op = "alloc" /\ last.ptr # NULL /\ Len(live) = 1)
              => last.ptr = RoundUp(heap_start, last.align)

\* Everything has been freed, the block freed last not being the first one
\* of the window.
C4_Witness ==
    /\ which = "bump"
    /\ last.op = "dealloc"
    /\ live = <<>>
    /\ last.ptr > RoundUp(heap_start, last.align)
    /\ next = heap_start

\* The nodes of the free list and the live blocks that hold byte b.
NodesAt(b) ==
    {k \in 1..Len(list) : list[k].start <= b /\ b < list[k].start + list[k].size}
BlocksAt(b) ==
    {i \in 1..Len(live) :
        live[i].addr <= b /\ b < live[i].addr + BlockSize(live[i])}

RECURSIVE SumSizes(_)
SumSizes(sizes) ==
    IF sizes = <<>> THEN 0 ELSE Head(sizes) + SumSizes(Tail(sizes))
FreeBytes == SumSizes([k \in 1..Len(list) |-> list[k].size])
LiveBytes == SumSizes([i \in 1..Len(live) |-> BlockSize(live[i])])

\* C5: on the free-list allocator every byte of the heap window belongs to
\* exactly one free node or to exactly one live block, so the free sizes and
\* the live block sizes add up to the heap size.
C5_OwnershipPartition ==
    (which = "list" /\ initialized /\ ~panicked) =>
        /\ \A b \in window.start..(window.start + window.size - 1) :
              Cardinality(NodesAt(b)) + Cardinality(BlocksAt(b)) = 1
        /\ FreeBytes + LiveBytes = window.size

\* The last call went through the free list's layout adjustment.
AdjustedCall == which = "list" /\ last.op \in {"alloc", "dealloc"}

\* C6 as stated: for every request, size_align returns
\* align' = max(align, node_align) and
\* size' = round_up(max(size, node_min_size), align'), a multiple of align'
\* that is at least node_min_size.
C6_LayoutAdjustment ==
    AdjustedCall =>
        /\ ~panicked
        /\ last.adj_align = Max(last.align, NODE_ALIGN)
        /\ last.adj_size = RoundUp(Max(last.size, NODE_SIZE), last.adj_align)
        /\ last.adj_size % last.adj_align = 0
        /\ last.adj_size >= NODE_SIZE

\* C6 amended: with align' = max(align, node_align), size_align panics when
\* size > isize::MAX - (align' - 1); otherwise it returns align' and
\* size' = max(round_up(size, align'), node_min_size), which is at least
\* node_min_size and a multiple of node_align, and is a multiple of align'
\* exactly when round_up(size, align') >= node_min_size or align' divides
\* node_min_size; alloc and dealloc record the same (size', align') for the
\* same layout.
C6_LayoutAdjustmentAmended ==
    AdjustedCall =>
        LET align == Max(last.align, NODE_ALIGN)
            padded == RoundUp(last.size, align)
        IN  IF last.size > IsizeMax - (align - 1)
            THEN panicked
            ELSE /\ last.adj_align = align
                 /\ last.adj_size = Max(padded, NODE_SIZE)
                 /\ last.adj_size >= NODE_SIZE
                 /\ last.adj_size % NODE_ALIGN = 0
                 /\ (last.adj_size % align = 0) <=>
                        (padded >= NODE_SIZE \/ NODE_SIZE % align = 0)
                 /\ \A i \in 1..Len(live) :
                        (live[i].size = last.size /\ live[i].align = last.align)
                            => BlockSize(live[i]) = last.adj_size

\* A block whose adjusted size is the node size, not a multiple of its
\* alignment, was allocated and then freed under the same layout.
C6_Witness ==
    /\ AdjustedCall
    /\ last.op = "dealloc"
    /\ last.adj_size = NODE_SIZE
    /\ last.adj_align > NODE_ALIGN
    /\ last.adj_size % last.adj_align # 0

\* The fit condition of the specification for a node and an adjusted request:
\* the aligned start plus the size stays inside the node and the leftover is
\* nothing or enough for a node.
Fits(node, size, align) ==
    LET aligned_end == RoundUp(node.start, align) + size
        node_end == node.start + node.size
    IN  /\ aligned_end <= node_end
        /\ (node_end - aligned_end = 0 \/ node_end - aligned_end >= NODE_SIZE)

\* The adjusted (size', align') of the requests made on the free list.
AdjustedLayouts ==
    {size_align(l) : l \in {x \in ListLayouts : ~size_align(x).panic}}

\* The chain is the whole window in one node, as init leaves it.
FreshList ==
    /\ which = "list"
    /\ initialized
    /\ ~panicked
    /\ list = <<[start |-> window.start, size |-> window.size]>>

\* C7: alloc_from_region accepts a node of the free list for an adjusted
\* request exactly when the request fits it with a leftover of 0 or of at
\* least node_min_size, and then returns the node's start rounded up; on a
\* fresh 64-byte heap a 40-byte request succeeds at the heap start and leaves
\* one free node of size 24, and a 56-byte request fails.
C7_FitPolicy ==
    /\ which = "list" =>
          \A k \in 1..Len(list) : \A a \in AdjustedLayouts :
              LET r == alloc_from_region(list[k], a.size, a.align)
              IN  /\ (r.res = "ok") <=> Fits(list[k], a.size, a.align)
                  /\ (r.res = "ok") => r.alloc_start = RoundUp(list[k].start, a.align)
                  /\ r.res # "panic"
    /\ (FreshList /\ window.size = 64) =>
          LET r40 == list_alloc(list, [size |-> 40, align |-> NODE_ALIGN])
              r56 == list_alloc(list, [size |-> 56, align |-> NODE_ALIGN])
          IN  /\ r40.ptr = window.start
              /\ r40.list = <<[start |-> window.start + 40, size |-> 24]>>
              /\ r56.ptr = NULL
              /\ r56.list = list

\* A 40-byte request on the 64-byte heap was served with a leftover of
\* exactly the node size.
C7_Witness ==
    /\ which = "list"
    /\ window.size = 64
    /\ last.op = "alloc"
    /\ last.adj_size = 40
    /\ last.ptr = window.start
    /\ list = <<[start |-> window.start + 40, size |-> NODE_SIZE]>>

\* C8: on the free-list allocator, whatever else is live, freeing a live
\* block with its layout and allocating with the same layout again succeeds,
\* returns the block just freed and leaves the free list (so its length and
\* its total size) as it was before the free; the cycle can therefore be
\* repeated for ever.
C8_FreeListReuse ==
    (which = "list" /\ initialized /\ ~panicked) =>
        \A i \in 1..Len(live) :
            LET layout == [size |-> live[i].size, align |-> live[i].align]
                freed == list_dealloc(list, live[i].addr, layout)
                again == list_alloc(freed.list, layout)
            IN  /\ ~freed.panic
                /\ Len(freed.list) = Len(list) + 1
                /\ ~again.panic
                /\ again.ptr = live[i].addr
                /\ again.list = list

\* A block was allocated again at an address below an older live block: the
\* block of an earlier free was reused while another allocation stayed live.
C8_Witness ==
    /\ which = "list"
    /\ last.op = "alloc"
    /\ Len(live) = 2
    /\ last.ptr = live[2].addr
    /\ live[2].addr < live[1].addr
    /\ live[2].addr = window.start

\* The bump allocator has nothing outstanding, as init leaves it.
FreshBump ==
    /\ which = "bump"
    /\ initialized
    /\ ~panicked
    /\ next = heap_start
    /\ allocations = 0

\* The size the last alloc asked the heap for: the layout's size on the bump
\* allocator, the adjusted size on the free list.
AskedSize == IF which = "bump" THEN last.size ELSE last.adj_size

\* C9: a request whose (adjusted) size exceeds the heap size H fails with
\* the null pointer in every state; on a fresh heap whose start satisfies the
\* request's alignment a request of (adjusted) size exactly H returns the
\* heap start, and the same request made again while that block is live
\* fails.
C9_Exhaustion ==
    /\ (initialized /\ ~panicked /\ last.op = "alloc" /\ AskedSize > window.size)
          => last.ptr = NULL
    /\ FreshBump =>
          \A a \in {x \in Aligns : heap_start % x = 0 /\ LayoutOk(window.size, x)} :
              LET first == bump_alloc(next, heap_end, allocations, window.size, a)
                  second == bump_alloc(first.next, heap_end, first.allocations,
                                       window.size, a)
              IN  /\ first.ptr = heap_start
                  /\ first.allocations = 1
                  /\ second.ptr = NULL
    /\ FreshList =>
          \A l \in {x \in ListLayouts :
                       /\ ~size_align(x).panic
                       /\ size_align(x).size = window.size
                       /\ window.start % size_align(x).align = 0} :
              LET first == list_alloc(list, l)
                  second == list_alloc(first.list, l)
              IN  /\ first.ptr = window.start
                  /\ first.list = <<>>
                  /\ ~second.panic
                  /\ second.ptr = NULL

\* The whole free-list heap is one live block and the same request, made
\* again, has just failed.
C9_Witness ==
    /\ which = "list"
    /\ ~panicked
    /\ Len(live) = 1
    /\ live[1].addr = window.start
    /\ BlockSize(live[1]) = window.size
    /\ last.op = "alloc"
    /\ last.size = live[1].size
    /\ last.align = live[1].align
    /\ last.ptr = NULL

\* Rounding nx up to align, or adding size to the rounded address, leaves
\* the address space, or the end of the block lies beyond heap_end.
Exceeds(nx, he, size, align) ==
    \/ RoundUp(nx, align) > UsizeMax
    \/ RoundUp(nx, align) + size > UsizeMax
    \/ RoundUp(nx, align) + size > he

\* C10: a bump alloc whose rounded start or whose end would leave the
\* address space, or whose end would pass heap_end, returns the null pointer
\* without panicking and leaves next and allocations as they were.
C10_BumpOverflowIsFailure ==
    [][(/\ which = "bump"
        /\ initialized
        /\ ~panicked
        /\ last'.op = "alloc"
        /\ Exceeds(next, heap_end, last'.size, last'.align))
          => (/\ ~panicked'
              /\ last'.ptr = NULL
              /\ next' = next
              /\ allocations' = allocations)]_vars

\* C11: a bump dealloc that arrives when the count of live allocations is 0
\* is fatal: the call panics, and leaves neither the count wrapped around to
\* a large value nor next moved.
C11_DoubleFreeIsFatal ==
    [][(which = "bump" /\ last'.op = "dealloc_again" /\ allocations = 0)
          => /\ panicked'
             /\ allocations' = allocations
             /\ next' = next]_vars

\* C14: every node of the free list is at least node_min_size long, starts
\* at a multiple of node_align and lies inside the heap window; two nodes
\* never share a byte, so no node is in the chain twice.
C14_NodeInvariants ==
    which = "list" =>
        /\ \A k \in 1..Len(list) :
              /\ list[k].size >= NODE_SIZE
              /\ list[k].start % NODE_ALIGN = 0
              /\ window.start <= list[k].start
              /\ list[k].start + list[k].size <= window.start + window.size
        /\ \A j, k \in 1..Len(list) :
              j # k => Disjoint(list[j].start, list[j].start + list[j].size,
                                list[k].start, list[k].start + list[k].size)

\* Three nodes are in the chain, put there by frees and by a split.
C14_Witness ==
    /\ which = "list"
    /\ ~panicked
    /\ last.op = "dealloc"
    /\ Len(list) >= 3

\* A window init must refuse: too small for a node or not aligned for one.
BadWindow(w) == w.size < NODE_SIZE \/ w.start % NODE_ALIGN # 0

\* C16: init of the free list over a window smaller than a node or not
\* aligned for a node panics and installs no node; over any other window it
\* leaves exactly the node (heap_start, heap_size).
C16_InitPrecondition ==
    (which = "list" /\ last.op = "init") =>
        IF BadWindow(window)
        THEN panicked /\ list = <<>>
        ELSE ~panicked /\ list = <<[start |-> window.start, size |-> window.size]>>

\* init was given a window that is not aligned for a node and has panicked.
C16_Witness ==
    /\ which = "list"
    /\ last.op = "init"
    /\ window.start % NODE_ALIGN # 0
    /\ window.size >= NODE_SIZE
    /\ panicked

\* Two nodes of the chain l, the first ending where the second starts.
Adjacent(l, j, k) == j # k /\ l[j].start + l[j].size = l[k].start

\* C17: a dealloc on the free list puts exactly one node in front of the
\* chain and leaves every node that was there as it was; and a request larger
\* than each of two adjacent free nodes, though not larger than the two
\* together, is never served from them.
C17_NoCoalescing ==
    /\ [][(which = "list" /\ last'.op = "dealloc")
             => /\ ~panicked'
                /\ Len(list') = Len(list) + 1
                /\ Tail(list') = list]_vars
    /\ [](which = "list" =>
            \A j, k \in 1..Len(list) : \A l \in ListLayouts :
                LET sa == size_align(l)
                    r == list_alloc(list, l)
                IN  (/\ Adjacent(list, j, k)
                     /\ ~sa.panic
                     /\ sa.size > list[j].size
                     /\ sa.size > list[k].size
                     /\ sa.size <= list[j].size + list[k].size)
                    => \/ r.ptr = NULL
                       \/ r.ptr < list[j].start
                       \/ r.ptr >= list[k].start + list[k].size)

\* Two adjacent blocks have both been freed and a request larger than each,
\* which their sum would hold, has just failed.
C17_Witness ==
    /\ which = "list"
    /\ ~panicked
    /\ last.op = "alloc"
    /\ last.ptr = NULL
    /\ \E j, k \in 1..Len(list) :
          /\ Adjacent(list, j, k)
          /\ last.adj_size > list[j].size
          /\ last.adj_size > list[k].size
          /\ last.adj_size <= list[j].size + list[k].size

\* C15: in every state of the bump allocator heap_start <= next <= heap_end,
\* the count of live allocations is the number of successful allocations not
\* yet freed, and a count of 0 means next is back at heap_start.
C15_BumpInvariants ==
    (which = "bump" /\ initialized /\ ~panicked) =>
        /\ heap_start <= next
        /\ next <= heap_end
        /\ allocations = Len(live)
        /\ allocations = 0 => next = heap_start

\* The adjusted layout of a request in unbounded arithmetic: align' =
\* max(align, node_align) and the size padded to align' and raised to the
\* size of a node.
SpecAlign(align) == Max(align, NODE_ALIGN)
SpecSize(size, align) == Max(RoundUp(size, SpecAlign(align)), NODE_SIZE)

\* No node of the chain l fits the request (size, align) once adjusted.
NoNodeFits(l, size, align) ==
    \A k \in 1..Len(l) : ~Fits(l[k], SpecSize(size, align), SpecAlign(align))

\* C18: when no node of the free list fits the adjusted request, alloc
\* returns the null pointer, does not panic and leaves the chain, its nodes,
\* their sizes and their order, as it was.
C18_FailuresAreValues ==
    [][(/\ which = "list"
        /\ initialized
        /\ last'.op = "alloc"
        /\ NoNodeFits(list, last'.size, last'.align))
          => /\ ~panicked'
             /\ last'.ptr = NULL
             /\ list' = list]_vars

\* C9 for every request: an alloc whose size, adjusted on the free list,
\* exceeds the heap size H returns the null pointer and does not panic.
C9_ExhaustionIsNull ==
    (/\ initialized
     /\ last.op = "alloc"
     /\ (IF which = "bump" THEN last.size
                           ELSE SpecSize(last.size, last.align)) > window.size)
        => ~panicked /\ last.ptr = NULL

\* Two live allocations, then a free that left one of them outstanding.
C15_Witness ==
    /\ which = "bump"
    /\ ~panicked
    /\ last.op = "dealloc"
    /\ allocations = 1
    /\ Len(live) = 1
    /\ next > heap_start

\* The successful alloc of this step took node k of the chain.
Took(k) ==
    /\ k \in 1..Len(list)
    /\ Fits(list[k], last'.adj_size, last'.adj_align)
    /\ \A j \in 1..(k - 1) : ~Fits(list[j], last'.adj_size, last'.adj_align)

\* This step is a successful alloc on the free list.
AllocSucceeds ==
    /\ which = "list"
    /\ last'.op = "alloc"
    /\ ~panicked'
    /\ last'.ptr # NULL

\* C19: a successful alloc on the free list takes the first node from the
\* head that fits the adjusted request and returns that node's start rounded
\* up to align'; every node before it does not fit and stays in the chain
\* unchanged and in the same order; so right after a free, a request the
\* freed block fits is served from the freed block.
C19_FirstFit ==
    /\ [][AllocSucceeds =>
             \E k \in 1..Len(list) :
                 /\ Took(k)
                 /\ last'.ptr = RoundUp(list[k].start, last'.adj_align)
                 /\ LET d == Len(list') - (Len(list) - 1)
                    IN  \A j \in 1..(k - 1) : list'[j + d] = list[j]]_vars
    /\ []((which = "list" /\ ~panicked /\ last.op = "dealloc") =>
            \A l \in ListLayouts :
                LET sa == size_align(l)
                IN  (~sa.panic /\ Fits(list[1], sa.size, sa.align))
                        => /\ list[1].start = last.ptr
                           /\ list_alloc(list, l).ptr
                                  = RoundUp(list[1].start, sa.align))

\* A 40-byte request was served from the second block of the heap while the
\* first block of the heap, 24 bytes long and too small for it, is a free
\* node and the next node the walk sees.
C19_Witness ==
    /\ which = "list"
    /\ ~panicked
    /\ last.op = "alloc"
    /\ last.adj_size = 40
    /\ last.ptr = window.start + NODE_SIZE
    /\ Len(list) >= 2
    /\ list[1] = [start |-> last.ptr + last.adj_size,
                  size |-> window.size - NODE_SIZE - last.adj_size]
    /\ list[2] = [start |-> window.start, size |-> NODE_SIZE]

\* C20: a successful alloc on the free list removes the node it took and
\* keeps the other nodes in their order; when the bytes left after the block
\* are more than 0 they become exactly one new node (alloc_start + size',
\* leftover) at the head, and when there are none no node is added and the
\* chain is one node shorter.
C20_SplitEffect ==
    [][AllocSucceeds =>
          \E k \in 1..Len(list) :
              /\ Took(k)
              /\ LET alloc_end == last'.ptr + last'.adj_size
                     leftover == list[k].start + list[k].size - alloc_end
                 IN  IF leftover > 0
                     THEN list' = <<[start |-> alloc_end, size |-> leftover]>>
                                      \o RemoveAt(list, k)
                     ELSE /\ list' = RemoveAt(list, k)
                          /\ Len(list') = Len(list) - 1]_vars

\* An alloc has split a node that was not the only one: its leftover is the
\* new head and another node follows.
C20_Witness ==
    /\ which = "list"
    /\ ~panicked
    /\ last.op = "alloc"
    /\ last.ptr # NULL
    /\ Len(list) >= 2
    /\ list[1].start = last.ptr + last.adj_size

\* C12: every read and write of the allocator's fields by a call happens
\* while that call holds the allocator's lock, taken once on entry and
\* released when the inner operation is over; so at most one call is inside
\* the critical section, and the fields are always what the calls give when
\* run one after the other in the order they wrote.
C12_MutualExclusion ==
    /\ \A c \in Callers : (pc[c] \in InCriticalSection) <=> (mutex["ALLOC"] = c)
    /\ Cardinality({c \in Callers : pc[c] \in InCriticalSection}) <= 1
    /\ Inner = serial

\* One caller is inside the critical section, about to write, while the
\* other spins on the lock.
C12_Witness ==
    /\ pc["c1"] = "write"
    /\ pc["c2"] = "lock"
    /\ call["c1"].op = "alloc"
    /\ call["c2"].op = "alloc"
    /\ mutex["ALLOC"] = "c1"

\* The handler is at a lock.
HandlerAtLock ==
    /\ irq.handler # "none"
    /\ irq.at <= Len(Program(irq.handler, irq.key))
    /\ Current.op = "lock"

\* A handler is running and is at a request for the allocator's lock.
HandlerAsksAlloc ==
    /\ irq.handler # "none"
    /\ irq.at <= Len(Program(irq.handler, irq.key))
    /\ Current = Lock("ALLOC")

C21_DeallocPushesAtHead ==
    [][(which = "list" /\ last'.op = "dealloc")
          => /\ ~panicked'
             /\ list' = <<[start |-> last'.ptr,
                           size |-> SpecSize(last'.size, last'.align)]>> \o list
             /\ \E i \in 1..Len(live) :
                   /\ live[i].addr = last'.ptr
                   /\ BlockSize(live[i]) = list'[1].size]_vars

\* A block whose layout was padded has been freed onto a chain that was not
\* empty: the new head has the padded size and the old nodes follow.
C21_Witness ==
    /\ which = "list"
    /\ ~panicked
    /\ last.op = "dealloc"
    /\ Len(list) >= 2
    /\ list[1] = [start |-> last.ptr, size |-> last.adj_size]
    /\ last.adj_size > last.size

\* C22: a bump dealloc that leaves the count of live allocations above 0
\* changes the count only; so as long as an allocation stays live next never
\* goes down, and the bytes of the blocks freed are not handed out again.
C22_NoSingleReclaim ==
    /\ [][(which = "bump" /\ last'.op = "dealloc" /\ allocations' > 0)
             => /\ allocations' = allocations - 1
                /\ next' = next
                /\ heap_start' = heap_start
                /\ heap_end' = heap_end]_vars
    /\ [][(which = "bump" /\ initialized /\ allocations' > 0)
             => next' >= next]_vars
    /\ []((which = "bump" /\ initialized /\ ~panicked /\ allocations > 0) =>
            \A l \in BumpLayouts :
                LET r == bump_alloc(next, heap_end, allocations, l.size, l.align)
                IN  r.ptr # NULL => r.ptr >= next)

\* The older of two live blocks has been freed: the younger one is still
\* live and next still stands behind it.
C22_Witness ==
    /\ which = "bump"
    /\ ~panicked
    /\ last.op = "dealloc"
    /\ last.size > 0
    /\ allocations = 1
    /\ Len(live) = 1
    /\ last.ptr < live[1].addr
    /\ next >= live[1].addr + live[1].size

\* The two assertions of add_free_region hold for the region (addr, size).
AssertionsHold(addr, size) == addr % NODE_ALIGN = 0 /\ size >= NODE_SIZE

\* C26: after a valid init, whatever allocs and matching deallocs were made,
\* the add_free_region call of any alloc (the leftover at alloc_start +
\* size') and of any dealloc of a live block gets an address aligned for a
\* node and a size of at least a node, and alloc_start + size' does not
\* overflow; so a panic, if there is one, is not from these: it is from the
\* layout adjustment of the alloc that was last called.
C26_AssertionsHold ==
    (which = "list" /\ initialized /\ ~BadWindow(window)) =>
        /\ ~panicked =>
              /\ \A l \in ListLayouts :
                    LET sa == size_align(l)
                        found == find_region(list, 1, sa.size, sa.align)
                        alloc_end == found.alloc_start + sa.size
                        excess_size == end_addr(list[found.idx]) - alloc_end
                    IN  (~sa.panic /\ found.res # "none") =>
                            /\ found.res = "some"
                            /\ alloc_end <= UsizeMax
                            /\ excess_size > 0 =>
                                  /\ AssertionsHold(alloc_end, excess_size)
                                  /\ ~add_free_region(RemoveAt(list, found.idx),
                                                      alloc_end, excess_size).panic
              /\ \A i \in 1..Len(live) :
                    /\ AssertionsHold(live[i].addr, BlockSize(live[i]))
                    /\ ~list_dealloc(list, live[i].addr,
                                     [size |-> live[i].size,
                                      align |-> live[i].align]).panic
        /\ panicked =>
              /\ last.op = "alloc"
              /\ size_align([size |-> last.size, align |-> last.align]).panic

\* An alloc with an alignment above that of a node has split a node, and
\* its leftover went through add_free_region to the head of the chain.
C26_Witness ==
    /\ which = "list"
    /\ ~panicked
    /\ last.op = "alloc"
    /\ last.ptr # NULL
    /\ last.adj_align > NODE_ALIGN
    /\ Len(list) >= 1
    /\ list[1].start = last.ptr + last.adj_size
    /\ Len(live) >= 2

\* The last n + 2 bytes written are a newline, n printable bytes and a
\* newline.
LineWritten(n) ==
    /\ Len(written) >= n + 2
    /\ written[Len(written)] = NewLine
    /\ written[Len(written) - n - 1] = NewLine
    /\ \A i \in 1..n : written[Len(written) - n - 1 + i] \in PrintableAscii

\* C25: whatever was written before, after a newline, a string s of at most
\* BUFFER_WIDTH printable bytes and a newline, the row above the last holds
\* the bytes of s from column 0 on and column_position is 0; and no write
\* of a byte ever indexes a cell outside the buffer (the kernel panics only
\* in a copy_row called with a row that is not there or in a scroll called
\* with an offset that overflows).
C25_LinePlacement ==
    /\ \A n \in 0..BUFFER_WIDTH :
          LineWritten(n) =>
              /\ vga.column_position = 0
              /\ \A i \in 1..n :
                    vga.buffer[BUFFER_HEIGHT - 2][i - 1].ascii_character
                        = written[Len(written) - n - 1 + i]
    /\ (Len(written) > 0 /\ panicked) => written[Len(written)] = Call
    /\ vga.column_position \in 0..BUFFER_WIDTH

\* After a call had set other colours, a line that fills the whole width and
\* starts with a space was written between two newlines.
C25_Witness ==
    /\ LineWritten(BUFFER_WIDTH)
    /\ written[1] = Call
    /\ vga.color_code # ColorCode_default
    /\ Len(written) > BUFFER_WIDTH + 2
    /\ written[Len(written) - BUFFER_WIDTH] = Space
    /\ written[Len(written) - 1] = Tilde
    /\ vga.buffer[BUFFER_HEIGHT - 2][0].ascii_character = Space
    /\ vga.buffer[BUFFER_HEIGHT - 2][BUFFER_WIDTH - 1].ascii_character = Tilde

\* The pages that hold a byte of [HEAP_START, HEAP_START + HEAP_SIZE), each
\* present and writable.
HeapBacked ==
    {[page |-> a \div PageSize, flags |-> {"PRESENT", "WRITABLE"}] :
        a \in HEAP_START..(HEAP_START + HEAP_SIZE - 1)}

\* The panic handler is at a request for the allocator's lock.
PanicAsksAlloc ==
    /\ cpu.task = "panic_handler"
    /\ PanicCurrent = Lock("ALLOC")

\* C23: init_heap returns Ok only with every page of the heap window mapped
\* present and writable, and returns its error at the first page that fails,
\* the pages before it mapped and that page not; in both entry points no
\* request reaches the allocator, from the entry point, from the panic
\* handler or from a handler that interrupts them, unless init_heap
\* returned Ok, and no request faults on a heap page; after an Err the entry
\* point goes no further than the expect, which panics: from then on only
\* the panic handler and the interrupt handlers run, and only a test build
\* switches the machine off.
C23_HeapBackedBeforeUse ==
    /\ boot.result = "Ok" => HeapBacked \subseteq boot.mapped
    /\ boot.result \in {"FrameAllocationFailed", "MapToError"} =>
          /\ boot.mapped = {m \in HeapBacked : m.page < HeapPage}
          /\ HeapPage \in {m.page : m \in HeapBacked}
          /\ BootCurrent = "expect"
    /\ (boot.requests > 0 \/ HandlerAsksAlloc \/ PanicAsksAlloc) =>
          boot.result = "Ok"
    /\ irq.handler # "page_fault"
    /\ BootCurrent \in {"test_main", "halt_loop", "loop"} => boot.result = "Ok"
    /\ (boot.path # "none" /\ panicked) <=>
          /\ boot.result \in {"FrameAllocationFailed", "MapToError"}
          /\ cpu.task = "panic_handler"
    /\ cpu.off => boot.cfg_test

\* The test entry point has mapped the whole heap and a test has allocated,
\* after the keyboard handler had printed a key during the boot.
C23_Witness ==
    /\ boot.path = "heap_allocation_main"
    /\ boot.result = "Ok"
    /\ boot.mapped = HeapBacked
    /\ boot.requests > 0
    /\ cpu.interrupts
    /\ written # <<>>

\* Mapping failed in the kernel: the timer interrupts the panic handler
\* before it has printed the panic message.
C23_WitnessErr ==
    /\ boot.path = "kernel_main"
    /\ boot.result = "FrameAllocationFailed"
    /\ panicked
    /\ cpu.task = "panic_handler"
    /\ cpu.at = 1
    /\ irq.handler = "timer"

\* Mapping failed in a test build: the keyboard handler prints a key between
\* the two lines the panic handler sends to the serial port, the machine
\* still on.
C23_WitnessErrTest ==
    /\ boot.path = "heap_allocation_main"
    /\ boot.result = "FrameAllocationFailed"
    /\ panicked
    /\ ~cpu.off
    /\ PanicCurrent = SaveAndDisable
    /\ cpu.at > 1
    /\ irq.handler = "keyboard"
    /\ mutex["VGA_WRITER"] = "keyboard"

\* C24: the code outside the handlers holds the VGA writer lock and the
\* serial lock only with interrupts disabled, and the PICS and KEYBOARD
\* locks are held only by handlers or by init before it enables interrupts;
\* a handler that reaches a lock finds it free; and every timer and keyboard
\* handler that was entered returns.
C24_PrintingCannotDeadlock ==
    /\ [](\A m \in {"VGA_WRITER", "SERIAL1"} :
            mutex[m] \in Tasks => ~cpu.interrupts)
    /\ [](\A m \in {"PICS", "KEYBOARD"} :
            mutex[m] \in Tasks => mutex[m] = "lib_init" /\ ~cpu.interrupts)
    /\ [](HandlerAtLock => mutex[Current.m] = "none")
    /\ (irq.handler \in ExternalInterrupts ~> irq.handler = "none")

\* The keyboard handler preempted a print of the interrupted code before the
\* print disabled interrupts, and is printing a key under the writer lock.
C24_Witness ==
    /\ irq.handler = "keyboard"
    /\ irq.key # <<>>
    /\ mutex["VGA_WRITER"] = "keyboard"
    /\ mutex["KEYBOARD"] = "keyboard"
    /\ cpu.task = "vga_buffer_print"
    /\ cpu.at = 1
    /\ cpu.interrupts

====
